---------------------------- MODULE Spec2Model ----------------------------
(***************************************************************************)
(* Model of src/src/memory/temporal-decay.ts, of                           *)
(* src/src/process/command-queue.ts and of getReplyFromConfig in           *)
(* src/src/agents/pi-embedded-subscribe.e2e-harness.ts.                    *)
(*                                                                         *)
(* The diversity reranking stage (MMR): tokenize, jaccardSimilarity,       *)
(* maxSimilarityToSelected, computeMMRScore, mmrRerank and                  *)
(* applyMMRToHybridResults, under the specification Spec.                  *)
(*                                                                         *)
(* The temporal decay stage: toDecayLambda,                                *)
(* calculateTemporalDecayMultiplier, applyTemporalDecayToScore,            *)
(* parseMemoryDateFromPath, isEvergreenMemoryPath, extractTimestamp,       *)
(* ageInDaysFromTimestamp and applyTemporalDecayToHybridResults, under     *)
(* the specification DecaySpec.                                            *)
(*                                                                         *)
(* The command queue: enqueueCommand, drainQueue and getQueueSize, under   *)
(* the specification QueueSpec, and under QueueFairSpec for what happens   *)
(* in the end.                                                             *)
(*                                                                         *)
(* The auto-reply: getReplyFromConfig with its session handling, its       *)
(* allowlist, its text and command replies and the argv it builds, over    *)
(* the command queue, under the specification ReplySpec.                   *)
(*                                                                         *)
(* Strings are sequences of one-character strings, so that tokenization,   *)
(* the matching of dated paths and the building of synthetic ids and       *)
(* cache keys are computed, not assumed.                                   *)
(* A JavaScript number is held as the rational number its decimal        *)
(* literal names, or as one of NaN, Infinity and -Infinity, and the        *)
(* arithmetic is exact where the rounding of the IEEE doubles cannot       *)
(* change what the code does.  Where it can, the doubles themselves are    *)
(* computed, bit for bit: when two MMR scores are compared that are equal  *)
(* or nearly equal as rationals, and when Math.exp is called at about      *)
(* 1075 half-lives, where it underflows.  A decay multiplier               *)
(* exp(-(LN2 / H) * age) is kept as the power of two 2^(-age / H) it       *)
(* approximates, as the smallest double 2^(-1074) from 1074 half-lives     *)
(* on, and as 0 where Math.exp returns 0.                                  *)
(***************************************************************************)
EXTENDS Integers, Sequences, FiniteSets, TLC

(***************************************************************************)
(* Numbers.                                                                *)
(***************************************************************************)
RECURSIVE GCD(_, _)
GCD(a, b) == IF b = 0 THEN a ELSE GCD(b, a % b)

Abs(n) == IF n < 0 THEN -n ELSE n

\* The rational n/d (d > 0) in lowest terms.
Rat(n, d) ==
  LET g == GCD(Abs(n), d) IN [k |-> "num", n |-> n \div g, d |-> d \div g]
NaN == [k |-> "NaN", n |-> 0, d |-> 1]
PosInfinity == [k |-> "Infinity", n |-> 0, d |-> 1]
NegInfinity == [k |-> "-Infinity", n |-> 0, d |-> 1]
Undefined == [k |-> "undefined", n |-> 0, d |-> 1]
\* A key that an object does not have.
Absent == [k |-> "absent", n |-> 0, d |-> 1]

\* A finite number.
IsNum(x) == x.k = "num"

\* A number other than NaN; undefined is NaN where a number is needed.
IsOrdered(x) == x.k \in {"num", "Infinity", "-Infinity"}

\* -1, 0 or 1.
SignOf(x) ==
  CASE x.k = "Infinity" -> 1
    [] x.k = "-Infinity" -> -1
    [] OTHER -> IF x.n > 0 THEN 1 ELSE IF x.n < 0 THEN -1 ELSE 0

InfinityOfSign(s) == IF s > 0 THEN PosInfinity ELSE NegInfinity

\* a * b of JavaScript: NaN when an operand is NaN and for 0 * Infinity.
NumMul(a, b) ==
  IF IsNum(a) /\ IsNum(b) THEN Rat(a.n * b.n, a.d * b.d)
  ELSE IF ~IsOrdered(a) \/ ~IsOrdered(b) THEN NaN
  ELSE IF SignOf(a) * SignOf(b) = 0 THEN NaN
  ELSE InfinityOfSign(SignOf(a) * SignOf(b))

\* a - b of JavaScript: NaN when an operand is NaN and for
\* Infinity - Infinity.
NumSub(a, b) ==
  IF IsNum(a) /\ IsNum(b) THEN Rat(a.n * b.d - b.n * a.d, a.d * b.d)
  ELSE IF ~IsOrdered(a) \/ ~IsOrdered(b) THEN NaN
  ELSE IF IsNum(b) THEN a
  ELSE IF IsNum(a) THEN InfinityOfSign(-SignOf(b))
  ELSE IF a.k = b.k THEN NaN
  ELSE a

\* a / b of JavaScript: NaN when an operand is NaN, for 0 / 0 and for
\* Infinity / Infinity; a zero divisor is +0.
NumDiv(a, b) ==
  IF IsNum(a) /\ IsNum(b)
    THEN IF b.n > 0 THEN Rat(a.n * b.d, a.d * b.n)
         ELSE IF b.n < 0 THEN Rat(-(a.n * b.d), -(a.d * b.n))
         ELSE IF a.n = 0 THEN NaN
         ELSE InfinityOfSign(SignOf(a))
  ELSE IF ~IsOrdered(a) \/ ~IsOrdered(b) THEN NaN
  ELSE IF IsNum(a) THEN Rat(0, 1)
  ELSE IF ~IsNum(b) THEN NaN
  ELSE InfinityOfSign(SignOf(a) * (IF SignOf(b) < 0 THEN -1 ELSE 1))

\* a > b of JavaScript: false when an operand is NaN.
NumGt(a, b) ==
  CASE IsNum(a) /\ IsNum(b) -> a.n * b.d > b.n * a.d
    [] IsOrdered(a) /\ IsOrdered(b) ->
         /\ a.k # b.k
         /\ a.k = "Infinity" \/ b.k = "-Infinity"
    [] OTHER -> FALSE

\* a === b of JavaScript on numbers: false when an operand is NaN.
NumEq(a, b) ==
  CASE IsNum(a) /\ IsNum(b) -> a.n * b.d = b.n * a.d
    [] IsOrdered(a) /\ IsOrdered(b) -> a.k = b.k
    [] OTHER -> FALSE

\* Math.max(a, b) and Math.min(a, b): NaN when an operand is NaN.
MathMax(a, b) ==
  IF IsOrdered(a) /\ IsOrdered(b) THEN (IF NumGt(b, a) THEN b ELSE a) ELSE NaN

MathMin(a, b) ==
  IF IsOrdered(a) /\ IsOrdered(b) THEN (IF NumGt(a, b) THEN b ELSE a) ELSE NaN

Zero == Rat(0, 1)
One == Rat(1, 1)

(***************************************************************************)
(* IEEE 754 doubles.  A number of JavaScript is a double; the rational     *)
(* numbers above are the values the doubles of the inputs stand for.       *)
(* Where the rounding of an operation decides what the code does, the      *)
(* operation is computed on the doubles themselves: a double is            *)
(* s * m * 2^e with the sign s (0 for the double 0), the significand m of  *)
(* 53 bits and the exponent e.  A double below 2^(-1022) is subnormal: a   *)
(* whole number m of the smallest double 2^(-1074), e = -1074.             *)
(***************************************************************************)
\* 2^k for a natural number k.
RECURSIVE Pow2(_)
Pow2(k) == IF k = 0 THEN 1 ELSE 2 * Pow2(k - 1)

\* A natural number of any size: its digits to the base 2^15, the lowest
\* first, the highest not 0.
LimbBits == 15
LimbBase == 32768

RECURSIVE LimbsOfNat(_)
LimbsOfNat(n) ==
  IF n = 0 THEN <<>> ELSE <<n % LimbBase>> \o LimbsOfNat(n \div LimbBase)

RECURSIVE LimbsTrim(_)
LimbsTrim(a) ==
  IF a = <<>> \/ a[Len(a)] # 0 THEN a ELSE LimbsTrim(SubSeq(a, 1, Len(a) - 1))

LimbAt(a, i) == IF i <= Len(a) THEN a[i] ELSE 0

\* -1, 0 or 1 as a is less than, equal to or greater than b.
LimbsCmp(a, b) ==
  IF Len(a) # Len(b) THEN (IF Len(a) > Len(b) THEN 1 ELSE -1)
  ELSE LET diff == {i \in DOMAIN a : a[i] # b[i]} IN
       IF diff = {} THEN 0
       ELSE LET i == CHOOSE j \in diff : \A l \in diff : j >= l
            IN IF a[i] > b[i] THEN 1 ELSE -1

RECURSIVE LimbsAddFrom(_, _, _, _, _)
LimbsAddFrom(a, b, i, carry, acc) ==
  IF i > Len(a) /\ i > Len(b)
    THEN (IF carry = 1 THEN Append(acc, 1) ELSE acc)
    ELSE LET sum == LimbAt(a, i) + LimbAt(b, i) + carry
         IN IF sum >= LimbBase
              THEN LimbsAddFrom(a, b, i + 1, 1, Append(acc, sum - LimbBase))
              ELSE LimbsAddFrom(a, b, i + 1, 0, Append(acc, sum))

LimbsAdd(a, b) == LimbsAddFrom(a, b, 1, 0, <<>>)

\* a - b for a >= b.
RECURSIVE LimbsSubFrom(_, _, _, _, _)
LimbsSubFrom(a, b, i, borrow, acc) ==
  IF i > Len(a) THEN LimbsTrim(acc)
  ELSE LET dif == a[i] - LimbAt(b, i) - borrow
       IN IF dif < 0
            THEN LimbsSubFrom(a, b, i + 1, 1, Append(acc, dif + LimbBase))
            ELSE LimbsSubFrom(a, b, i + 1, 0, Append(acc, dif))

LimbsSub(a, b) == LimbsSubFrom(a, b, 1, 0, <<>>)

\* a * f for a digit f.
RECURSIVE LimbsTimesFrom(_, _, _, _, _)
LimbsTimesFrom(a, f, i, carry, acc) ==
  IF i > Len(a) THEN LimbsTrim(Append(acc, carry))
  ELSE LET prod == a[i] * f + carry
       IN IF prod >= LimbBase
            THEN LimbsTimesFrom(a, f, i + 1, prod \div LimbBase,
                                Append(acc, prod % LimbBase))
            ELSE LimbsTimesFrom(a, f, i + 1, 0, Append(acc, prod))

LimbsTimes(a, f) == LimbsTimesFrom(a, f, 1, 0, <<>>)

\* a * LimbBase^k
LimbsShift(a, k) ==
  IF a = <<>> THEN <<>> ELSE [i \in 1..k |-> 0] \o a

\* a * 2^k
LimbsShiftLeft(a, k) ==
  LimbsShift(LimbsTimes(a, Pow2(k % LimbBits)), k \div LimbBits)

RECURSIVE LimbsMulFrom(_, _, _, _)
LimbsMulFrom(a, b, i, acc) ==
  IF i > Len(b) THEN acc
  ELSE LET sum == LimbsAdd(acc, LimbsShift(LimbsTimes(a, b[i]), i - 1))
       IN IF sum = <<>> THEN LimbsMulFrom(a, b, i + 1, <<>>)
          ELSE LimbsMulFrom(a, b, i + 1, sum)

LimbsMul(a, b) == LimbsMulFrom(a, b, 1, <<>>)

\* The largest digit q with d * q <= r, for r < d * LimbBase and a d whose
\* highest digit is LimbBase / 2 or more: the two highest digits of r by
\* the highest of d give q, q + 1 or q + 2.
QuotientDigit(r, d) ==
  CHOOSE q \in
    {IF LimbsCmp(LimbsTimes(d, qhat), r) <= 0 THEN qhat
     ELSE IF LimbsCmp(LimbsTimes(d, qhat - 1), r) <= 0 THEN qhat - 1
     ELSE qhat - 2 :
     qhat \in {IF (LimbAt(r, Len(d) + 1) * LimbBase + LimbAt(r, Len(d)))
                     \div d[Len(d)] >= LimbBase
                 THEN LimbBase - 1
                 ELSE (LimbAt(r, Len(d) + 1) * LimbBase + LimbAt(r, Len(d)))
                        \div d[Len(d)]}} : TRUE

\* Long division from the highest digit of n.
RECURSIVE LimbsDivFrom(_, _, _, _, _)
LimbsDivFrom(n, d, i, rem, quo) ==
  IF i = 0 THEN [quo |-> LimbsTrim(quo), rem |-> rem]
  ELSE CHOOSE res \in
    {LimbsDivFrom(n, d, i - 1, LimbsSub(r, LimbsTimes(d, q)), <<q>> \o quo) :
     r \in {LimbsTrim(<<n[i]>> \o rem)},
     q \in {QuotientDigit(LimbsTrim(<<n[i]>> \o rem), d)}} : TRUE

\* The whole part of a / 2^k.
LimbsShiftRight(a, k) ==
  LET w == k \div LimbBits
      b == k % LimbBits
  IN IF Len(a) <= w THEN <<>>
     ELSE LimbsTrim([i \in 1..(Len(a) - w) |->
            (a[i + w] \div Pow2(b))
              + (LimbAt(a, i + w + 1) % Pow2(b)) * Pow2(LimbBits - b)])

\* -1, 0 or 1 as the k lowest bits of a, k >= 1, are less than, equal to
\* or more than 2^(k - 1): the highest of them and whether a lower one is
\* set.
LimbsCmpHalf(a, k) ==
  LET w == (k - 1) \div LimbBits + 1
      b == (k - 1) % LimbBits
  IN IF (LimbAt(a, w) \div Pow2(b)) % 2 = 0 THEN -1
     ELSE IF LimbAt(a, w) % Pow2(b) # 0
               \/ \E i \in DOMAIN a : i < w /\ a[i] # 0 THEN 1
     ELSE 0

\* The number of bits of a, a not 0.
BitLength(a) ==
  LimbBits * (Len(a) - 1)
    + CHOOSE k \in 1..LimbBits : Pow2(k - 1) <= a[Len(a)] /\ a[Len(a)] < Pow2(k)

\* The bits to shift d by for its highest digit to be LimbBase / 2 or more.
NormalizingShift(d) == (LimbBits - (BitLength(d) % LimbBits)) % LimbBits

\* The quotient and the remainder of n by d, d not 0: both are shifted
\* until the highest digit of d is LimbBase / 2 or more.
LimbsDivMod(n, d) ==
  CHOOSE qr \in
    {[quo |-> res.quo, rem |-> LimbsShiftRight(res.rem, s)] :
     s \in {NormalizingShift(d)},
     res \in {LimbsDivFrom(LimbsShiftLeft(n, NormalizingShift(d)),
                           LimbsShiftLeft(d, NormalizingShift(d)),
                           Len(LimbsShiftLeft(n, NormalizingShift(d))),
                           <<>>, <<>>)}} : TRUE

DoubleZero == [s |-> 0, m |-> <<>>, e |-> 0]

\* The significand M of more than 53 bits cut to 53: the bits dropped are
\* compared with half of the last bit kept, ties go to the even
\* significand (up when sticky), and a significand that rounds up to 2^53
\* is 2^52 with the next exponent.
RoundsUp(c, sticky, quo) ==
  c = 1 \/ (c = 0 /\ (sticky \/ LimbAt(quo, 1) % 2 = 1))

RoundOff(s, M, e, sticky, drop) ==
  CHOOSE d \in
    {IF BitLength(r) = 54
       THEN [s |-> s, m |-> LimbsShiftLeft(<<1>>, 52), e |-> e + drop + 1]
       ELSE [s |-> s, m |-> r, e |-> e + drop] :
     r \in {IF RoundsUp(LimbsCmpHalf(M, drop), sticky, quo)
              THEN LimbsAdd(quo, <<1>>) ELSE quo :
            quo \in {LimbsShiftRight(M, drop)}}} : TRUE

\* The double nearest to s * M * 2^e, or to a number just above it when
\* sticky (what a division left over): round to nearest, ties to even.
RoundLimbs(s, M, e, sticky, bits) ==
  IF bits <= 53
    THEN [s |-> s, m |-> LimbsShiftLeft(M, 53 - bits), e |-> e - (53 - bits)]
    ELSE RoundOff(s, M, e, sticky, bits - 53)

\* A number below 2^(-1022) rounds to a whole number of 2^(-1074), ties to
\* the even one; below half of 2^(-1074) it is the double 0.
RoundSubnormal(s, M, e, sticky) ==
  IF e >= -1074
    THEN [s |-> s, m |-> LimbsShiftLeft(M, e + 1074), e |-> -1074]
    ELSE CHOOSE d \in
      {IF r = <<>> THEN DoubleZero ELSE [s |-> s, m |-> r, e |-> -1074] :
       r \in {IF RoundsUp(LimbsCmpHalf(M, -1074 - e), sticky, quo)
                THEN LimbsAdd(quo, <<1>>) ELSE quo :
              quo \in {LimbsShiftRight(M, -1074 - e)}}} : TRUE

RoundToDouble(s, M, e, sticky) ==
  CHOOSE d \in
    {IF m = <<>> THEN DoubleZero
     ELSE CHOOSE r \in {IF bits + e <= -1022
                          THEN RoundSubnormal(s, m, e, sticky)
                          ELSE RoundLimbs(s, m, e, sticky, bits) :
                        bits \in {BitLength(m)}} : TRUE :
     m \in {M}} : TRUE

\* The double nearest to s * (bn / bd) * 2^e for the naturals bn and bd:
\* the quotient is taken with k more bits, 55 bits or more in all, and
\* what the division leaves over makes it sticky.
DoubleOfQuotient(s, bn, bd, k, e) ==
  CHOOSE d \in
    {RoundToDouble(s, qr.quo, e - k, qr.rem # <<>>) :
       qr \in {LimbsDivMod(LimbsShiftLeft(bn, k), bd)}} : TRUE

\* The double of a decimal literal or of a quotient of two whole numbers:
\* the double nearest to n / d.
QuotientBits(bn, bd) ==
  IF 55 + BitLength(bd) > BitLength(bn)
    THEN 55 + BitLength(bd) - BitLength(bn) ELSE 0

DoubleOfNats(s, bn, bd) ==
  CHOOSE d \in
    {DoubleOfQuotient(s, n, m, k, 0) :
       n \in {bn}, m \in {bd}, k \in {QuotientBits(bn, bd)}} : TRUE

DoubleOfRat(x) ==
  CHOOSE d \in
    {IF v.n = 0 THEN DoubleZero
     ELSE DoubleOfNats(IF v.n < 0 THEN -1 ELSE 1,
                       LimbsOfNat(IF v.n < 0 THEN -v.n ELSE v.n), LimbsOfNat(v.d)) :
     v \in {x}} : TRUE

DoubleNeg(x) == [x EXCEPT !.s = -x.s]

\* x * y
DoubleMul(x, y) ==
  CHOOSE d \in
    {IF a.s = 0 \/ b.s = 0 THEN DoubleZero
     ELSE RoundToDouble(a.s * b.s, LimbsMul(a.m, b.m), a.e + b.e, FALSE) :
     a \in {x}, b \in {y}} : TRUE

\* x / y for y not 0.
DoubleDiv(x, y) ==
  CHOOSE d \in
    {IF a.s = 0 THEN DoubleZero
     ELSE DoubleOfQuotient(a.s * b.s, a.m, b.m, QuotientBits(a.m, b.m), a.e - b.e) :
     a \in {x}, b \in {y}} : TRUE

\* The sum of s * X * 2^e and t * Y * 2^e.
AddAligned(s, X, t, Y, e) ==
  CHOOSE d \in
    {IF s = t THEN RoundToDouble(s, LimbsAdd(a, b), e, FALSE)
     ELSE IF LimbsCmp(a, b) = 0 THEN DoubleZero
     ELSE IF LimbsCmp(a, b) = 1 THEN RoundToDouble(s, LimbsSub(a, b), e, FALSE)
     ELSE RoundToDouble(t, LimbsSub(b, a), e, FALSE) :
     a \in {X}, b \in {Y}} : TRUE

\* x + y
DoubleAdd(x, y) ==
  CHOOSE d \in
    {IF a.s = 0 THEN b
     ELSE IF b.s = 0 THEN a
     ELSE IF a.e < b.e
       THEN AddAligned(a.s, a.m, b.s, LimbsShiftLeft(b.m, b.e - a.e), a.e)
       ELSE AddAligned(a.s, LimbsShiftLeft(a.m, a.e - b.e), b.s, b.m, b.e) :
     a \in {x}, b \in {y}} : TRUE

\* x - y
DoubleSub(x, y) == DoubleAdd(x, DoubleNeg(y))

\* x > y
DoubleGt(x, y) ==
  \E a \in {x}, b \in {y} :
    IF a.s # b.s THEN a.s > b.s
    ELSE IF a.s = 0 THEN FALSE
    ELSE IF a.e # b.e THEN (IF a.e > b.e THEN a.s = 1 ELSE a.s = -1)
    ELSE LimbsCmp(a.m, b.m) * a.s = 1

DoubleAbs(x) == [x EXCEPT !.s = IF x.s = 0 THEN 0 ELSE 1]

RECURSIVE LimbsToNat(_)
LimbsToNat(a) ==
  IF a = <<>> THEN 0 ELSE a[1] + LimbBase * LimbsToNat(Tail(a))

\* The whole part of |x|, for an x below 2^31.
DoubleTrunc(x) ==
  IF x.s = 0 THEN 0
  ELSE IF x.e >= 0 THEN LimbsToNat(LimbsShiftLeft(x.m, x.e))
  ELSE LimbsToNat(LimbsShiftRight(x.m, -x.e))

DoubleOne == [s |-> 1, m |-> <<0, 0, 0, 128>>, e |-> -52]
DoubleTwo == [s |-> 1, m |-> <<0, 0, 0, 128>>, e |-> -51]
\* 2^k
DoubleTwoTo(k) == [s |-> 1, m |-> <<0, 0, 0, 128>>, e |-> k - 52]

(***************************************************************************)
(* Math.exp for an argument x <= 0, as V8 computes it (ieee754::exp, the   *)
(* exp of fdlibm): the argument is reduced to x = k * ln2 + r with         *)
(* |r| <= 0.5 * ln2, exp(r) is computed from a polynomial, and the result  *)
(* is scaled by 2^k.  Every operation rounds as the double operation does. *)
(***************************************************************************)
\* ln2HI, ln2LO, invln2, P1 .. P5 and u_threshold of fdlibm.
ExpLn2Hi == [s |-> 1, m |-> <<0, 32192, 14603, 177>>, e |-> -53]
ExpLn2Lo == [s |-> 1, m |-> <<15478, 27378, 26556, 209>>, e |-> -85]
ExpInvLn2 == [s |-> 1, m |-> <<766, 19031, 21789, 184>>, e |-> -52]
ExpP1 == [s |-> 1, m |-> <<21822, 10922, 21845, 170>>, e |-> -55]
ExpP2 == [s |-> -1, m |-> <<15763, 11645, 1456, 182>>, e |-> -61]
ExpP3 == [s |-> 1, m |-> <<24108, 24139, 22954, 138>>, e |-> -66]
ExpP4 == [s |-> -1, m |-> <<27633, 2980, 29959, 221>>, e |-> -72]
ExpP5 == [s |-> 1, m |-> <<9424, 25981, 23973, 177>>, e |-> -77]

\* The largest x for which Math.exp(-x) is not 0, the double
\* 0x1.74910d52d3051p+9 (745.1332191019411, just below 1075 * ln 2):
\* Math.exp returns 0 for an argument below -x.
ExpUnderflowThreshold ==
  [s |-> 1, m |-> <<12369, 10842, 9283, 186>>, e |-> -43]

\* The doubles whose high words the reduction compares with: 0x3fd62e43
\* (just above 0.5 * ln2), 0x3ff0a2b2 (1.5 * ln2) and 0x3e300000 (2^-28).
ExpHalfLn2Word == [s |-> 1, m |-> <<0, 0, 14604, 177>>, e |-> -54]
ExpThreeHalvesLn2Word == [s |-> 1, m |-> <<0, 0, 2760, 133>>, e |-> -52]
ExpTinyWord == [s |-> 1, m |-> <<0, 0, 0, 128>>, e |-> -80]

\* P1 + t * (P2 + t * (P3 + t * (P4 + t * P5)))
ExpHorner(tt) ==
  CHOOSE r \in
    {DoubleAdd(ExpP1, DoubleMul(t, DoubleAdd(ExpP2, DoubleMul(t,
       DoubleAdd(ExpP3, DoubleMul(t, DoubleAdd(ExpP4, DoubleMul(t, ExpP5)))))))) :
     t \in {tt}} : TRUE

\* c = x - t * (P1 + ...) for t = x * x
ExpCorrection(xx) ==
  CHOOSE c \in
    {DoubleSub(x, DoubleMul(t, ExpHorner(t))) :
     x \in {xx}, t \in {DoubleMul(xx, xx)}} : TRUE

\* y * twopk, and y * twopk * twom1000 for k < -1021.
ExpScale(y, k) ==
  IF k >= -1021 THEN DoubleMul(y, DoubleTwoTo(k))
  ELSE DoubleMul(DoubleMul(y, DoubleTwoTo(k + 1000)), DoubleTwoTo(-1000))

\* The result for the reduced argument x = hi - lo and the exponent k.
ExpOfReduced(xx, hh, ll, kk) ==
  CHOOSE r \in
    {IF k = 0
       THEN DoubleSub(DoubleOne,
              DoubleSub(DoubleDiv(DoubleMul(x, c), DoubleSub(c, DoubleTwo)), x))
       ELSE ExpScale(DoubleSub(DoubleOne,
              DoubleSub(DoubleSub(lo, DoubleDiv(DoubleMul(x, c),
                                                DoubleSub(DoubleTwo, c))), hi)), k) :
     x \in {xx}, hi \in {hh}, lo \in {ll}, k \in {kk}, c \in {ExpCorrection(xx)}} : TRUE

\* hi = x - t * ln2HI, lo = t * ln2LO for the double t of k.
ExpReduced(xx, kk) ==
  CHOOSE r \in
    {ExpOfReduced(DoubleSub(hi, lo), hi, lo, kk) :
     hi \in {DoubleSub(xx, DoubleMul(DoubleOfRat(Rat(kk, 1)), ExpLn2Hi))},
     lo \in {DoubleMul(DoubleOfRat(Rat(kk, 1)), ExpLn2Lo)}} : TRUE

\* hi = x - ln2HI[1], lo = ln2LO[1], k = -1 for 0.5 * ln2 < |x| < 1.5 * ln2.
ExpReducedByOne(xx) ==
  CHOOSE r \in
    {ExpOfReduced(DoubleSub(hi, DoubleNeg(ExpLn2Lo)), hi, DoubleNeg(ExpLn2Lo), -1) :
     hi \in {DoubleAdd(xx, ExpLn2Hi)}} : TRUE

ExpDouble(xx) ==
  CHOOSE r \in
    {IF x.s = 0 THEN DoubleOne
     ELSE IF DoubleGt(DoubleAbs(x), ExpUnderflowThreshold) THEN DoubleZero
     ELSE IF ~DoubleGt(ExpHalfLn2Word, DoubleAbs(x))
       THEN IF DoubleGt(ExpThreeHalvesLn2Word, DoubleAbs(x))
              THEN ExpReducedByOne(x)
              ELSE ExpReduced(x, -DoubleTrunc(
                     DoubleSub(DoubleMul(ExpInvLn2, x), DoubleTwoTo(-1))))
     ELSE IF DoubleGt(ExpTinyWord, DoubleAbs(x)) THEN DoubleAdd(DoubleOne, x)
     ELSE ExpOfReduced(x, DoubleZero, DoubleZero, 0) :
     x \in {xx}} : TRUE

(***************************************************************************)
(* tokenize: lowercase the text, take the maximal runs of [a-z0-9_].       *)
(***************************************************************************)
UpperCase ==
  <<"A","B","C","D","E","F","G","H","I","J","K","L","M",
    "N","O","P","Q","R","S","T","U","V","W","X","Y","Z">>
LowerCase ==
  <<"a","b","c","d","e","f","g","h","i","j","k","l","m",
    "n","o","p","q","r","s","t","u","v","w","x","y","z">>
Digits == <<"0","1","2","3","4","5","6","7","8","9">>

\* The lower case of one character.  A character that a string of the
\* model cannot hold is written as its code point.  Outside A-Z two
\* characters have a lower case with a character of [a-z0-9_] in it: the
\* Kelvin sign (U+212A) gives "k", and the capital I with a dot above
\* (U+0130) gives "i" and the combining dot (U+0307).  The lower case of
\* every other character is, like the character, no word character, and
\* the character is kept as it is written.
LowerCaseOf(c) ==
  IF \E i \in DOMAIN UpperCase : UpperCase[i] = c
    THEN <<LowerCase[CHOOSE i \in DOMAIN UpperCase : UpperCase[i] = c]>>
  ELSE IF c = "U+212A" THEN <<"k">>
  ELSE IF c = "U+0130" THEN <<"i", "U+0307">>
  ELSE <<c>>

\* text.toLowerCase()
RECURSIVE ToLowerCase(_)
ToLowerCase(text) ==
  IF text = <<>> THEN <<>>
  ELSE LowerCaseOf(Head(text)) \o ToLowerCase(Tail(text))

WordChars ==
  {LowerCase[i] : i \in DOMAIN LowerCase} \cup {Digits[i] : i \in DOMAIN Digits} \cup {"_"}

\* match(/[a-z0-9_]+/g): the maximal runs of word characters.
RECURSIVE TokenScan(_, _, _, _)
TokenScan(text, i, cur, acc) ==
  LET flushed == IF cur = <<>> THEN acc ELSE acc \cup {cur} IN
  IF i > Len(text) THEN flushed
  ELSE LET c == text[i] IN
       IF c \in WordChars
         THEN TokenScan(text, i + 1, Append(cur, c), acc)
         ELSE TokenScan(text, i + 1, <<>>, flushed)

tokenize(text) == TokenScan(ToLowerCase(text), 1, <<>>, {})

(***************************************************************************)
(* jaccardSimilarity: the intersection is counted by walking the smaller   *)
(* set and probing the larger, the union is |A| + |B| - |intersection|.    *)
(***************************************************************************)
JaccardNoIntersectionInUnion(setA, setB) ==
  IF Cardinality(setA) = 0 /\ Cardinality(setB) = 0 THEN One
  ELSE IF Cardinality(setA) = 0 \/ Cardinality(setB) = 0 THEN Zero
  ELSE LET smaller == IF Cardinality(setA) <= Cardinality(setB) THEN setA ELSE setB
           larger == IF Cardinality(setA) <= Cardinality(setB) THEN setB ELSE setA
           intersectionSize == Cardinality({token \in smaller : token \in larger})
           unionSize == Cardinality(setA) + Cardinality(setB)
       IN IF unionSize = 0 THEN Zero ELSE Rat(intersectionSize, unionSize)

jaccardSimilarity(setA, setB) ==
  IF Cardinality(setA) = 0 /\ Cardinality(setB) = 0 THEN One
  ELSE IF Cardinality(setA) = 0 \/ Cardinality(setB) = 0 THEN Zero
  ELSE LET smaller == IF Cardinality(setA) <= Cardinality(setB) THEN setA ELSE setB
           larger == IF Cardinality(setA) <= Cardinality(setB) THEN setB ELSE setA
           intersectionSize == Cardinality({token \in smaller : token \in larger})
           unionSize == Cardinality(setA) + Cardinality(setB) - intersectionSize
       IN IF unionSize = 0 THEN Zero ELSE Rat(intersectionSize, unionSize)

textSimilarity(contentA, contentB) ==
  jaccardSimilarity(tokenize(contentA), tokenize(contentB))

(***************************************************************************)
(* Bounds and input pools.                                                 *)
(***************************************************************************)
MaxItems == 3

Str_cats_and_dogs ==
  <<"c","a","t","s"," ","a","n","d"," ","d","o","g","s">>
Str_cats_and_dogs_too ==
  <<"c","a","t","s"," ","a","n","d"," ","d","o","g","s"," ","t","o","o">>
Str_quantum_physics ==
  <<"q","u","a","n","t","u","m"," ","p","h","y","s","i","c","s">>
Str_Cats_DOGS == <<"C","a","t","s",","," ","D","O","G","S","!">>
Str_empty == <<>>

\* The (content, score) pairs mmrRerank's items are drawn from: the three
\* results of the spec's end-to-end example, equal scores with different
\* contents, equal contents with different scores, upper case and
\* punctuation, and a content without tokens.
ItemPool ==
  {<<Str_cats_and_dogs, Rat(9, 10)>>,
   <<Str_cats_and_dogs_too, Rat(17, 20)>>,
   <<Str_quantum_physics, Rat(1, 2)>>,
   <<Str_cats_and_dogs_too, Rat(9, 10)>>,
   <<Str_Cats_DOGS, Rat(17, 20)>>,
   <<Str_cats_and_dogs, Rat(1, 2)>>,
   <<Str_empty, Rat(1, 2)>>}

\* The ids a caller of mmrRerank gives its items: unique within a call
\* (spec section 3), here by position.
ItemIds == <<<<"A">>, <<"B">>, <<"C">>, <<"D">>, <<"E">>>>

\* Calls of mmrRerank with arguments of other kinds than the pool's: MMR
\* scores that are equal as rationals and differ as doubles (with lambda
\* 0.7, after C is selected, A scores 0 and B scores
\* 0.7 * ((0.3 - 0.2) / (0.9 - 0.2)) - (1 - 0.7) * (1 / 3), which is below
\* 0 in doubles); a lambda of Infinity and of -Infinity; an array that
\* holds one object twice; contents with the Kelvin sign U+212A and the
\* capital I with dot U+0130, which toLowerCase turns into letters of
\* [a-z]; and lists of 4 items whose order the rounding decides.
Str_b == <<"b">>
Str_c_a == <<"c"," ","a">>
Str_c_e == <<"c"," ","e">>
Str_d == <<"d">>
Str_e == <<"e">>
Str_a_d_e == <<"a"," ","d"," ","e">>
Str_b_d == <<"b"," ","d">>
Str_d_a_e == <<"d"," ","a"," ","e">>
Str_Kelvin_sign == <<"U+212A","e","l","v","i","n">>
Str_kelvin == <<"k","e","l","v","i","n">>
Str_Istanbul_dotted == <<"U+0130","s","t","a","n","b","u","l">>

ItemOf(id, score, content, ref) ==
  [id |-> <<id>>, score |-> score, content |-> content, ref |-> ref]

RerankCases ==
  {[items |-> <<ItemOf("A", Rat(1, 5), Str_b, 1), ItemOf("B", Rat(3, 10), Str_c_a, 2),
                ItemOf("C", Rat(9, 10), Str_c_e, 3)>>,
    config |-> [enabled |-> "true", lambda |-> Rat(7, 10)]],
   [items |-> <<ItemOf("A", Rat(1, 2), Str_cats_and_dogs, 1),
                ItemOf("B", Rat(9, 10), Str_cats_and_dogs_too, 2)>>,
    config |-> [enabled |-> "true", lambda |-> PosInfinity]],
   [items |-> <<ItemOf("A", Rat(1, 2), Str_cats_and_dogs, 1),
                ItemOf("B", Rat(9, 10), Str_cats_and_dogs_too, 2)>>,
    config |-> [enabled |-> "true", lambda |-> NegInfinity]],
   [items |-> <<ItemOf("A", Rat(1, 2), Str_cats_and_dogs, 1),
                ItemOf("A", Rat(1, 2), Str_cats_and_dogs, 1)>>,
    config |-> [enabled |-> "true", lambda |-> Rat(7, 10)]],
   [items |-> <<ItemOf("A", Rat(1, 2), Str_cats_and_dogs, 1),
                ItemOf("C", Rat(9, 10), Str_quantum_physics, 2),
                ItemOf("A", Rat(1, 2), Str_cats_and_dogs, 1)>>,
    config |-> [enabled |-> "true", lambda |-> Rat(7, 10)]],
   [items |-> <<ItemOf("A", Rat(1, 2), Str_cats_and_dogs, 1),
                ItemOf("C", Rat(9, 10), Str_quantum_physics, 2),
                ItemOf("A", Rat(1, 2), Str_cats_and_dogs, 1)>>,
    config |-> [enabled |-> "true", lambda |-> Rat(1, 1)]],
   [items |-> <<ItemOf("A", Rat(1, 2), Str_cats_and_dogs, 1),
                ItemOf("B", NaN, Str_quantum_physics, 2),
                ItemOf("C", Rat(9, 10), Str_cats_and_dogs_too, 3)>>,
    config |-> [enabled |-> "true", lambda |-> Rat(1, 1)]],
   [items |-> <<ItemOf("A", NaN, Str_b, 1), ItemOf("B", Rat(1, 2), Str_c_a, 2)>>,
    config |-> [enabled |-> "true", lambda |-> Rat(7, 10)]],
   [items |-> <<ItemOf("A", Rat(9, 10), Str_Kelvin_sign, 1),
                ItemOf("B", Rat(17, 20), Str_kelvin, 2),
                ItemOf("C", Rat(1, 2), Str_Istanbul_dotted, 3)>>,
    config |-> [enabled |-> "true", lambda |-> Rat(1, 2)]],
   [items |-> <<ItemOf("A", Rat(2, 5), Str_c_e, 1), ItemOf("B", Rat(1, 5), Str_a_d_e, 2),
                ItemOf("C", Rat(3, 5), Str_d, 3), ItemOf("D", Rat(4, 5), Str_b_d, 4)>>,
    config |-> [enabled |-> "true", lambda |-> Rat(3, 5)]],
   [items |-> <<ItemOf("A", Rat(1, 2), Str_d_a_e, 1), ItemOf("B", Rat(4, 5), Str_b, 2),
                ItemOf("C", Rat(7, 10), Str_b, 3), ItemOf("D", Rat(7, 10), Str_e, 4)>>,
    config |-> [enabled |-> "true", lambda |-> Rat(1, 2)]]}

\* Partial<MMRConfig>: a field is "absent", or given.  A lambda that is
\* not a number reaches Math.min as NaN.
Configs ==
  {[enabled |-> "absent", lambda |-> Undefined],
   [enabled |-> "true", lambda |-> Undefined],
   [enabled |-> "false", lambda |-> Rat(1, 2)]}
  \cup {[enabled |-> "true", lambda |-> l] :
          l \in {Rat(-1, 2), Rat(0, 1), Rat(1, 2), Rat(1, 1), Rat(3, 2), NaN}}

\* The hybrid search results applyMMRToHybridResults is given; a list may
\* hold the same path, startLine and snippet several times.
Path_a_md == <<"a",".","m","d">>
Path_a_colon_1 == <<"a",":","1">>

HybridPool ==
  {[path |-> Path_a_md, startLine |-> 1, snippet |-> Str_cats_and_dogs, score |-> Rat(9, 10)],
   [path |-> Path_a_md, startLine |-> 1, snippet |-> Str_cats_and_dogs, score |-> Rat(1, 2)],
   [path |-> Path_a_colon_1, startLine |-> 10, snippet |-> Str_cats_and_dogs_too, score |-> Rat(17, 20)],
   [path |-> Path_a_md, startLine |-> 10, snippet |-> Str_quantum_physics, score |-> Rat(1, 2)]}

\* The token sets jaccardSimilarity is called with.
TokenUniverse == tokenize(Str_cats_and_dogs_too) \cup tokenize(Str_quantum_physics)

SeqsUpTo(S, n) == UNION {[1..m -> S] : m \in 0..n}

(***************************************************************************)
(* Temporal decay: numbers.  A time in milliseconds is kept as whole days  *)
(* and the milliseconds within the day, so that dates of this century do   *)
(* not leave the integers the checker computes with.  A decayed score is   *)
(* c * 2^(-x): the coefficient c and the exponent x (an age in half-lives) *)
(* are exact rationals.  Math.exp is exact in the model except where the   *)
(* IEEE double underflows to 0.                                            *)
(***************************************************************************)
NumberIsNotNaN(x) == x.k \in {"num", "Infinity", "-Infinity"}

\* Number.isFinite(x)
NumberIsFinite(x) == x.k = "num"

\* x <= 0 of JavaScript: false for NaN and undefined.
NumLeqZero(x) ==
  CASE IsNum(x) -> x.n <= 0
    [] x.k = "-Infinity" -> TRUE
    [] OTHER -> FALSE

MathAbs(x) ==
  CASE IsNum(x) -> Rat(Abs(x.n), x.d)
    [] x.k \in {"Infinity", "-Infinity"} -> PosInfinity
    [] OTHER -> NaN

\* Math.max(0, x)
MathMaxZero(x) ==
  CASE IsNum(x) -> MathMax(Zero, x)
    [] x.k = "Infinity" -> PosInfinity
    [] x.k = "-Infinity" -> Zero
    [] OTHER -> NaN

NumAdd(a, b) ==
  IF IsNum(a) /\ IsNum(b) THEN Rat(a.n * b.d + b.n * a.d, a.d * b.d)
  ELSE IF ~IsOrdered(a) \/ ~IsOrdered(b) THEN NaN
  ELSE IF IsNum(b) THEN a
  ELSE IF IsNum(a) THEN b
  ELSE IF a.k = b.k THEN a
  ELSE NaN

\* const DAY_MS = 24 * 60 * 60 * 1000;
DAY_MS == 24 * 60 * 60 * 1000

\* A time value: d * DAY_MS + ms milliseconds since the epoch, 0 <= ms < DAY_MS.
Ms(d, ms) == [k |-> "num", d |-> d, ms |-> ms]
NaNMs == [k |-> "NaN", d |-> 0, ms |-> 0]
\* The null of Date | null.
NullDate == [k |-> "null", d |-> 0, ms |-> 0]

\* a - b on time values.
MsSub(a, b) ==
  IF a.k = "num" /\ b.k = "num"
    THEN IF a.ms >= b.ms
           THEN Ms(a.d - b.d, a.ms - b.ms)
           ELSE Ms(a.d - b.d - 1, a.ms - b.ms + DAY_MS)
    ELSE NaNMs

\* Math.max(0, t) on a time value.
MsMaxZero(t) ==
  IF t.k = "num" THEN (IF t.d < 0 THEN Ms(0, 0) ELSE t) ELSE NaNMs

\* t / DAY_MS
MsDivDay(t) ==
  IF t.k = "num" THEN NumAdd(Rat(t.d, 1), Rat(t.ms, DAY_MS)) ELSE NaN

\* c * 2^(-x)
Scaled(c, x) == [c |-> c, x |-> IF IsNum(c) /\ c.n # 0 THEN x ELSE Zero]

\* Math.exp underflows at about 1075 half-lives: 2^(-1075) is half the
\* smallest double 2^(-1074).
ExpUnderflowHalfLives == 1075

NumGeqInt(q, n) == IsNum(q) /\ q.n >= n * q.d

\* Math.LN2: the double 0x1.62e42fefa39efp-1.
MathLN2 == [s |-> 1, m |-> <<14831, 32244, 14603, 177>>, e |-> -53]

\* lambda * clampedAge as the code computes it, for a lambda of
\* 1 / halfLifeDays in units of Math.LN2: the double
\* (Math.LN2 / halfLifeDays) * clampedAge.
ExpArgument(lambda, clampedAge) ==
  DoubleMul(DoubleDiv(MathLN2, DoubleOfRat(NumDiv(One, lambda))),
            DoubleOfRat(clampedAge))

\* u * 2^(-x) for a whole number u, not 0: an odd number times a power of
\* two.
RECURSIVE ScaledUnits(_, _)
ScaledUnits(u, x) ==
  IF u % 2 = 0 THEN ScaledUnits(u \div 2, x - 1)
  ELSE Scaled(Rat(u, 1), Rat(x, 1))

\* The value of a double that is 0 or fewer than 2^31 of the smallest
\* double.
ScaledOfDouble(d) ==
  IF d.s = 0 THEN Scaled(Zero, Zero)
  ELSE ScaledUnits(d.s * LimbsToNat(d.m), -d.e)

\* Math.exp(-lambda * clampedAge) for lambda > 0 and a finite age >= 0:
\* 2^(-halfLives) while that is 2^30 of the smallest double or more (the
\* rounding of the double is then below one part in 2^30), and from there
\* on the double Math.exp returns: a whole number of the smallest double,
\* 0 where Math.exp underflows.
MathExp(lambda, clampedAge) ==
  IF ~NumGeqInt(NumMul(lambda, clampedAge), ExpUnderflowHalfLives - 31)
    THEN Scaled(One, NumMul(lambda, clampedAge))
    ELSE ScaledOfDouble(ExpDouble(DoubleNeg(ExpArgument(lambda, clampedAge))))

(***************************************************************************)
(* toDecayLambda, calculateTemporalDecayMultiplier,                        *)
(* applyTemporalDecayToScore.  A lambda is held in units of Math.LN2.      *)
(***************************************************************************)
ToDecayLambdaTimes(halfLifeDays) ==
  IF ~NumberIsFinite(halfLifeDays) \/ NumLeqZero(halfLifeDays)
    THEN Zero
    ELSE halfLifeDays

toDecayLambda(halfLifeDays) ==
  IF ~NumberIsFinite(halfLifeDays) \/ NumLeqZero(halfLifeDays)
    THEN Zero
    ELSE NumDiv(One, halfLifeDays)

\* The same without Math.max(0, params.ageInDays): the age as it is given.
calculateTemporalDecayMultiplierUnclamped(ageInDays, halfLifeDays) ==
  LET lambda == toDecayLambda(halfLifeDays)
      clampedAge == ageInDays
  IN IF NumLeqZero(lambda) \/ ~NumberIsFinite(clampedAge)
       THEN Scaled(One, Zero)
       ELSE MathExp(lambda, clampedAge)

calculateTemporalDecayMultiplier(ageInDays, halfLifeDays) ==
  LET lambda == toDecayLambda(halfLifeDays)
      clampedAge == MathMaxZero(ageInDays)
  IN IF NumLeqZero(lambda) \/ ~NumberIsFinite(clampedAge)
       THEN Scaled(One, Zero)
       ELSE MathExp(lambda, clampedAge)

\* |score| * 2^(-halfLives) is below 2^30 of the smallest double, for the
\* whole part of halfLives.
DecayProductIsTiny(score, halfLives) ==
  LET j == halfLives.n \div halfLives.d - (ExpUnderflowHalfLives - 31)
  IN IF j >= 31 THEN TRUE
     ELSE IF j <= -31 THEN FALSE
     ELSE IF j >= 0 THEN Abs(score.n) \div Pow2(j) < score.d
     ELSE Abs(score.n) <= (score.d - 1) \div Pow2(-j)

\* The double score * multiplier where it is fewer than 2^31 of the
\* smallest double: the product rounds to a whole number of them, ties to
\* the even one, and below half of the smallest double it is 0.
DecayProduct(score, lambda, clampedAge, m) ==
  CHOOSE r \in
    {IF d.s = 0 \/ (d.e = -1074 /\ BitLength(d.m) <= 31)
       THEN ScaledOfDouble(d)
       ELSE Scaled(NumMul(score, m.c), m.x) :
     d \in {DoubleMul(DoubleOfRat(score),
                      ExpDouble(DoubleNeg(ExpArgument(lambda, clampedAge))))}} : TRUE

\* params.score * calculateTemporalDecayMultiplier(params)
applyTemporalDecayToScore(score, ageInDays, halfLifeDays) ==
  CHOOSE r \in UNION
    {{IF IsNum(s) /\ s.n # 0
          /\ ~NumLeqZero(lambda) /\ NumberIsFinite(clampedAge)
          /\ DecayProductIsTiny(s, NumMul(lambda, clampedAge))
        THEN DecayProduct(s, lambda, clampedAge, m)
        ELSE Scaled(NumMul(s, m.c), m.x) :
      m \in {calculateTemporalDecayMultiplier(a, h)},
      lambda \in {toDecayLambda(h)},
      clampedAge \in {MathMaxZero(a)}} :
     s \in {score}, a \in {ageInDays}, h \in {halfLifeDays}} : TRUE

\* ageMs = Math.max(0, nowMs - timestamp.getTime()); return ageMs / DAY_MS
ageInDaysFromTimestamp(timestamp, nowMs) ==
  MsDivDay(MsMaxZero(MsSub(nowMs, timestamp)))

(***************************************************************************)
(* Dates: Date.UTC and the UTC getters, as days since the epoch.           *)
(***************************************************************************)
\* Days from 1970-01-01 to the first day of month m (1..12) of year y.
DaysFromCivil(y, m) ==
  LET yy == IF m <= 2 THEN y - 1 ELSE y
      era == yy \div 400
      yoe == yy - era * 400
      mp == IF m > 2 THEN m - 3 ELSE m + 9
      doy == (153 * mp + 2) \div 5
      doe == yoe * 365 + yoe \div 4 - yoe \div 100 + doy
  IN era * 146097 + doe - 719468

\* Date.UTC(year, monthIndex, day) / DAY_MS: a year 0..99 is read as
\* 1900 + year; a month or day out of range rolls over.
DateUTC(year, monthIndex, day) ==
  LET y0 == IF year >= 0 /\ year <= 99 THEN 1900 + year ELSE year
  IN DaysFromCivil(y0 + monthIndex \div 12, (monthIndex % 12) + 1) + day - 1

\* getUTCFullYear, getUTCMonth (0..11) and getUTCDate of a day number.
CivilFromDays(days) ==
  LET z == days + 719468
      era == z \div 146097
      doe == z - era * 146097
      yoe == (doe - doe \div 1460 + doe \div 36524 - doe \div 146096) \div 365
      doy == doe - (365 * yoe + yoe \div 4 - yoe \div 100)
      mp == (5 * doy + 2) \div 153
      m == IF mp < 10 THEN mp + 3 ELSE mp - 9
  IN [year |-> yoe + era * 400 + (IF m <= 2 THEN 1 ELSE 0),
      month |-> m - 1,
      date |-> doy - (153 * mp + 2) \div 5 + 1]

(***************************************************************************)
(* Paths: parseMemoryDateFromPath and isEvergreenMemoryPath.               *)
(***************************************************************************)
IsDigit(c) == \E i \in DOMAIN Digits : Digits[i] = c

DigitValue(c) == (CHOOSE i \in DOMAIN Digits : Digits[i] = c) - 1

\* Number(s) for a string of digits.
RECURSIVE NumberOfDigits(_)
NumberOfDigits(s) ==
  IF s = <<>> THEN 0
  ELSE 10 * NumberOfDigits(SubSeq(s, 1, Len(s) - 1)) + DigitValue(s[Len(s)])

AllDigits(s) == \A i \in DOMAIN s : IsDigit(s[i])

\* filePath.replaceAll("\\", "/").replace(/^\.\//, "")
NormalizePath(filePath) ==
  LET slashed == [i \in DOMAIN filePath |-> IF filePath[i] = "\\" THEN "/" ELSE filePath[i]]
  IN IF Len(slashed) >= 2 /\ slashed[1] = "." /\ slashed[2] = "/"
       THEN SubSeq(slashed, 3, Len(slashed))
       ELSE slashed

Str_memory_slash == <<"m","e","m","o","r","y","/">>
Str_dot_md == <<".","m","d">>
Str_MEMORY_md == <<"M","E","M","O","R","Y",".","m","d">>
Str_memory_md == <<"m","e","m","o","r","y",".","m","d">>

StartsWith(s, prefix) ==
  Len(s) >= Len(prefix) /\ SubSeq(s, 1, Len(prefix)) = prefix

\* DATED_MEMORY_PATH_RE = /(?:^|\/)memory\/(\d{4})-(\d{2})-(\d{2})\.md$/
\* exec: the three groups, or <<>> for no match.  The match can only be
\* the last 20 characters.
DatedMemoryPathExec(normalized) ==
  LET n == Len(normalized)
      t == SubSeq(normalized, n - 19, n)
  IN IF /\ n >= 20
        /\ (n = 20 \/ normalized[n - 20] = "/")
        /\ SubSeq(t, 1, 7) = Str_memory_slash
        /\ AllDigits(SubSeq(t, 8, 11))
        /\ t[12] = "-"
        /\ AllDigits(SubSeq(t, 13, 14))
        /\ t[15] = "-"
        /\ AllDigits(SubSeq(t, 16, 17))
        /\ SubSeq(t, 18, 20) = Str_dot_md
       THEN <<SubSeq(t, 8, 11), SubSeq(t, 13, 14), SubSeq(t, 16, 17)>>
       ELSE <<>>

parseMemoryDateFromPath(filePath) ==
  LET match == DatedMemoryPathExec(NormalizePath(filePath)) IN
  IF match = <<>> THEN NullDate
  ELSE LET year == NumberOfDigits(match[1])
           month == NumberOfDigits(match[2])
           day == NumberOfDigits(match[3])
           timestamp == DateUTC(year, month - 1, day)
           parsed == CivilFromDays(timestamp)
       IN IF parsed.year # year \/ parsed.month # month - 1 \/ parsed.date # day
            THEN NullDate
            ELSE Ms(timestamp, 0)

IsEvergreenNamespaceOnly(filePath) ==
  LET normalized == NormalizePath(filePath) IN
  /\ StartsWith(normalized, Str_memory_slash)
  /\ DatedMemoryPathExec(normalized) = <<>>

isEvergreenMemoryPath(filePath) ==
  LET normalized == NormalizePath(filePath) IN
  IF normalized = Str_MEMORY_md \/ normalized = Str_memory_md THEN TRUE
  ELSE IF ~StartsWith(normalized, Str_memory_slash) THEN FALSE
  ELSE DatedMemoryPathExec(normalized) = <<>>

(***************************************************************************)
(* Temporal decay: the inputs the model draws from.                        *)
(***************************************************************************)
\* The largest batch applyTemporalDecayToHybridResults is called with.
MaxBatch == 2

Src_memory == <<"m","e","m","o","r","y">>
Src_sessions == <<"s","e","s","s","i","o","n","s">>
Path_memory_2024_03_01 == <<"m","e","m","o","r","y","/","2","0","2","4","-","0","3","-","0","1",".","m","d">>
Path_memory_2024_02_30 == <<"m","e","m","o","r","y","/","2","0","2","4","-","0","2","-","3","0",".","m","d">>
Path_MEMORY_md == <<"M","E","M","O","R","Y",".","m","d">>
Path_memory_topic == <<"m","e","m","o","r","y","/","t","o","p","i","c",".","m","d">>
Path_notes_a == <<"n","o","t","e","s","/","a",".","m","d">>
Path_memory_2020_01_01 == <<"m","e","m","o","r","y","/","2","0","2","0","-","0","1","-","0","1",".","m","d">>
Path_abs_memory_2024_02_30 == <<"/","a","b","s","/","m","e","m","o","r","y","/","2","0","2","4","-","0","2","-","3","0",".","m","d">>
Dir_ws == <<"/","w","s","/">>

\* The arguments of a call of parseMemoryDateFromPath: the dated form at
\* several depths, behind "./" and with backslashes, with other
\* extensions, with dates that are and are not calendar dates, with a
\* year below 100 and before 1970, and names that only resemble the form.
Path_deep_memory_2024_03_01 == <<"n","o","t","e","s","/","2","0","2","4","/","m","e","m","o","r","y","/","2","0","2","4","-","0","3","-","0","1",".","m","d">>
Path_dot_memory_2024_03_01 == <<".","/","m","e","m","o","r","y","/","2","0","2","4","-","0","3","-","0","1",".","m","d">>
Path_backslash_memory_2024_03_01 == <<"l","o","g","s","\\","m","e","m","o","r","y","\\","2","0","2","4","-","0","3","-","0","1",".","m","d">>
Path_memory_2024_03_01_txt == <<"m","e","m","o","r","y","/","2","0","2","4","-","0","3","-","0","1",".","t","x","t">>
Path_deep_memory_2024_03_01_json == <<"n","o","t","e","s","/","m","e","m","o","r","y","/","2","0","2","4","-","0","3","-","0","1",".","j","s","o","n">>
Path_memory_2024_02_29 == <<"m","e","m","o","r","y","/","2","0","2","4","-","0","2","-","2","9",".","m","d">>
Path_memory_2023_02_29 == <<"m","e","m","o","r","y","/","2","0","2","3","-","0","2","-","2","9",".","m","d">>
Path_memory_0099_12_31 == <<"m","e","m","o","r","y","/","0","0","9","9","-","1","2","-","3","1",".","m","d">>
Path_memory_1969_12_31 == <<"m","e","m","o","r","y","/","1","9","6","9","-","1","2","-","3","1",".","m","d">>
Path_xmemory_2024_03_01 == <<"x","m","e","m","o","r","y","/","2","0","2","4","-","0","3","-","0","1",".","m","d">>
Path_Memory_2024_03_01 == <<"M","e","m","o","r","y","/","2","0","2","4","-","0","3","-","0","1",".","m","d">>
Path_memory_2024_03_01_md_bak == <<"m","e","m","o","r","y","/","2","0","2","4","-","0","3","-","0","1",".","m","d","/","b","a","k">>
Path_memory_2024_3_1 == <<"m","e","m","o","r","y","/","2","0","2","4","-","3","-","1",".","m","d">>
Path_memory_2024_13_01 == <<"m","e","m","o","r","y","/","2","0","2","4","-","1","3","-","0","1",".","m","d">>
Path_memory_2024_00_10 == <<"m","e","m","o","r","y","/","2","0","2","4","-","0","0","-","1","0",".","m","d">>

ParsePathPool ==
  {Path_memory_2024_03_01, Path_memory_2024_02_30, Path_MEMORY_md,
   Path_memory_topic, Path_abs_memory_2024_02_30, Path_memory_2020_01_01,
   Path_deep_memory_2024_03_01, Path_dot_memory_2024_03_01,
   Path_backslash_memory_2024_03_01, Path_memory_2024_03_01_txt,
   Path_deep_memory_2024_03_01_json, Path_memory_2024_02_29,
   Path_memory_2023_02_29, Path_memory_0099_12_31, Path_memory_1969_12_31,
   Path_xmemory_2024_03_01, Path_Memory_2024_03_01,
   Path_memory_2024_03_01_md_bak, Path_memory_2024_3_1,
   Path_memory_2024_13_01, Path_memory_2024_00_10}

\* The results of a batch: a dated file 30 days before 2024-03-31, a dated
\* form that is no calendar date, the two kinds of evergreen file, a file
\* without a date and with a negative score, an old dated file under
\* another source, and an absolute path.  A score is any number: the
\* stage does not look at its sign.  startLine stands for the fields of a result the stage does not
\* read (startLine, endLine, snippet, vectorScore, textScore).
DecayResultPool ==
  {[path |-> Path_memory_2024_03_01, source |-> Src_memory,
    startLine |-> 1, score |-> Rat(1, 1)],
   [path |-> Path_memory_2024_02_30, source |-> Src_memory,
    startLine |-> 7, score |-> Rat(4, 5)],
   [path |-> Path_MEMORY_md, source |-> Src_memory,
    startLine |-> 3, score |-> Rat(4, 5)],
   [path |-> Path_memory_topic, source |-> Src_memory,
    startLine |-> 12, score |-> Rat(1, 2)],
   [path |-> Path_notes_a, source |-> Src_sessions,
    startLine |-> 5, score |-> Rat(-4, 5)],
   [path |-> Path_memory_2020_01_01, source |-> Src_sessions,
    startLine |-> 40, score |-> Rat(1, 2)],
   [path |-> Path_abs_memory_2024_02_30, source |-> Src_memory,
    startLine |-> 9, score |-> Rat(4, 5)]}

\* Partial<TemporalDecayConfig>: a key is not there ("absent", Absent),
\* or it is there with a value, which can be undefined ("undefined",
\* Undefined).
DecayConfigs ==
  {[enabled |-> "absent", halfLifeDays |-> Absent],
   [enabled |-> "undefined", halfLifeDays |-> Rat(30, 1)],
   [enabled |-> "false", halfLifeDays |-> Rat(30, 1)],
   [enabled |-> "true", halfLifeDays |-> Absent]}
  \cup {[enabled |-> "true", halfLifeDays |-> h] :
          h \in {Rat(1, 1), Rat(0, 1), Rat(-30, 1), NaN, PosInfinity, Undefined}}

\* params.workspaceDir: absent (or empty), or a directory.
WorkspaceDirs == {<<>>, Dir_ws}

\* params.nowMs: absent, a time, or NaN.
UndefinedMs == [k |-> "undefined", d |-> 0, ms |-> 0]

NowArgs ==
  {UndefinedMs, NaNMs,
   Ms(DateUTC(2024, 2, 31), 0),
   Ms(DateUTC(2024, 2, 31), DAY_MS \div 2),
   Ms(DateUTC(2024, 2, 1), 0),
   Ms(DateUTC(2022, 11, 10), 0)}

\* What Date.now() returns when nowMs is absent.
ClockValues == {Ms(DateUTC(2024, 3, 30), 0)}

\* How fs.stat settles: with a finite mtimeMs (one of them beyond the
\* range of Date), with one that is not finite, or by throwing.
StatOutcomes ==
  {[k |-> "ok", mtimeMs |-> Ms(DateUTC(2024, 2, 1), 0)],
   [k |-> "ok", mtimeMs |-> Ms(-100000001, 0)],
   [k |-> "ok", mtimeMs |-> NaNMs],
   [k |-> "throws", mtimeMs |-> NaNMs]}

NoStat == [k |-> "none", mtimeMs |-> NaNMs]

\* The arguments calculateTemporalDecayMultiplier is called with.
AgePool ==
  {Rat(-5, 1), Rat(0, 1), Rat(1, 2), Rat(1, 1), Rat(30, 1), Rat(45, 1), Rat(60, 1),
   Rat(1074, 1), Rat(2145, 2), Rat(1075, 1), Rat(1551, 1), Rat(32250, 1),
   Rat(70000, 1),
   NaN, PosInfinity, NegInfinity, Undefined}

HalfLifePool ==
  {Rat(1, 2), Rat(1, 1), Rat(30, 1), Rat(60, 1), Rat(0, 1), Rat(-30, 1), NaN,
   PosInfinity, NegInfinity, Undefined}

(***************************************************************************)
(* State.                                                                  *)
(***************************************************************************)
VARIABLES
  entry,          \* the exported function that was called
  pc,             \* the position in it
  results,        \* applyMMRToHybridResults: the results argument
  config,         \* the config argument
  items,          \* mmrRerank: the items argument
  itemById,       \* applyMMRToHybridResults: id -> index of the original result
  clampedLambda,  \* mmrRerank locals
  tokenCache,
  maxScore,
  minScore,
  selected,       \* indices into items, in selection order
  remaining,      \* indices into items; iterated in insertion (index) order
  safetyExit,     \* the greedy loop left by its break
  reranked,       \* mmrRerank's return value: indices into items
  output,         \* applyMMRToHybridResults's return value: indices into results
  outputIsInput,  \* the returned array is the array that was passed in
  setA, setB,     \* jaccardSimilarity: the arguments
  similarity      \* jaccardSimilarity: the return value

\* Temporal decay.
VARIABLES
  workspaceDir,           \* applyTemporalDecayToHybridResults: params.workspaceDir
  nowArg,                 \* params.nowMs
  nowMs,                  \* const nowMs = params.nowMs ?? Date.now()
  mapIndex,               \* how many entries results.map has called back for
  timestampPromiseCache,  \* cache key -> the promise extractTimestamp returned
  slots,                  \* the promises of the map callbacks, by index
  extractCalls,           \* the cache keys extractTimestamp was called for, in order
  statCalls,              \* the calls of fs.stat, in order: cache key and path
  statSettled,            \* the cache keys whose fs.stat has settled, in order
  decayed,                \* applyTemporalDecayToHybridResults's return value
  ageInDays,              \* calculateTemporalDecayMultiplier: the arguments
  halfLifeDays,
  multiplier              \* calculateTemporalDecayMultiplier: the return value

\* One call of parseMemoryDateFromPath.
VARIABLES
  parsePath,              \* parseMemoryDateFromPath: the filePath argument
  parsedDate              \* parseMemoryDateFromPath: the return value

\* The command queue (process/command-queue.ts).
VARIABLES
  commands,     \* the calls of enqueueCommand so far, in order: task, opts, enqueuedAt
  queue,        \* const queue: QueueEntry[]; an entry is the index of its call
  draining,     \* let draining
  awaited,      \* the entries a drainQueue call is suspended on (await entry.task())
  taskState,    \* per call: the task was not started, is executing, has settled
  promise,      \* per call: the promise enqueueCommand returned
  clock,        \* Date.now()
  onWaitCalls,  \* the calls of onWait, in order: entry, waitMs, queuedAhead
  drainFailed   \* a drainQueue call ended with an exception

\* Calls of getReplyFromConfig (agents/pi-embedded-subscribe.e2e-harness.ts).
VARIABLES
  sessionStore,  \* the session store file: session key -> sessionId, updatedAt
  replyCalls,    \* the calls of getReplyFromConfig so far, in order, with their locals
  uuids          \* how many times crypto.randomUUID was called

parseVars == <<parsePath, parsedDate>>

replyVars == <<sessionStore, replyCalls, uuids>>

queueVars ==
  <<commands, queue, draining, awaited, taskState, promise, clock, onWaitCalls,
    drainFailed>>

decayVars ==
  <<workspaceDir, nowArg, nowMs, mapIndex, timestampPromiseCache, slots,
    extractCalls, statCalls, statSettled, decayed, ageInDays, halfLifeDays,
    multiplier, parseVars>>

batchLocals ==
  <<nowMs, mapIndex, timestampPromiseCache, slots, extractCalls, statCalls,
    statSettled>>

vars ==
  <<entry, pc, results, config, items, itemById, clampedLambda, tokenCache,
    maxScore, minScore, selected, remaining, safetyExit, reranked, output,
    outputIsInput, setA, setB, similarity, decayVars, queueVars, replyVars>>

mmrLocals == <<clampedLambda, tokenCache, maxScore, minScore, selected, remaining, safetyExit>>

(***************************************************************************)
(* mmrRerank.                                                              *)
(***************************************************************************)
DEFAULT_MMR_CONFIG == [enabled |-> "false", lambda |-> Rat(7, 10)]

\* const { enabled = DEFAULT..., lambda = DEFAULT... } = config
ConfigEnabledUnlessFalse(cfg) == cfg.enabled # "false"

ConfigEnabled(cfg) ==
  IF cfg.enabled = "absent" THEN DEFAULT_MMR_CONFIG.enabled = "true"
  ELSE cfg.enabled = "true"

ConfigLambda(cfg) ==
  IF cfg.lambda.k = "undefined" THEN DEFAULT_MMR_CONFIG.lambda ELSE cfg.lambda

\* Math.max(0, Math.min(1, lambda))
ClampLambda(lambda) == MathMax(Zero, MathMin(One, lambda))

RECURSIVE MaxOf(_, _)
MaxOf(scores, i) ==
  IF i = Len(scores) THEN scores[i] ELSE MathMax(scores[i], MaxOf(scores, i + 1))

RECURSIVE MinOf(_, _)
MinOf(scores, i) ==
  IF i = Len(scores) THEN scores[i] ELSE MathMin(scores[i], MinOf(scores, i + 1))

ItemScores(its) == [i \in DOMAIN its |-> its[i].score]

\* tokenCache.set(item.id, tokenize(item.content)) for each item in order:
\* the last item with an id decides its entry.
BuildTokenCache(its) ==
  [id \in {its[i].id : i \in DOMAIN its} |->
     tokenize(its[CHOOSE i \in DOMAIN its :
                    /\ its[i].id = id
                    /\ \A j \in DOMAIN its : its[j].id = id => j <= i].content)]

\* tokenCache.get(item.id) ?? tokenize(item.content)
TokensOf(item, cache) ==
  IF item.id \in DOMAIN cache THEN cache[item.id] ELSE tokenize(item.content)

NormalizeScoreRaw(score, lo, hi) == score

normalizeScore(score, lo, hi) ==
  LET scoreRange == NumSub(hi, lo) IN
  IF NumEq(scoreRange, Zero) THEN One ELSE NumDiv(NumSub(score, lo), scoreRange)

RECURSIVE MaxSimLoop(_, _, _, _, _)
MaxSimLoop(itemTokens, selectedItems, cache, j, maxSim) ==
  IF j > Len(selectedItems) THEN maxSim
  ELSE LET sim == jaccardSimilarity(itemTokens, TokensOf(selectedItems[j], cache)) IN
       MaxSimLoop(itemTokens, selectedItems, cache, j + 1,
                  IF NumGt(sim, maxSim) THEN sim ELSE maxSim)

maxSimilarityToSelected(item, selectedItems, cache) ==
  IF Len(selectedItems) = 0 THEN Zero
  ELSE MaxSimLoop(TokensOf(item, cache), selectedItems, cache, 1, Zero)

ComputeMMRScorePlus(relevance, maxSimilarity, lambda) ==
  NumSub(NumMul(lambda, relevance), NumMul(NumSub(lambda, One), maxSimilarity))

computeMMRScore(relevance, maxSimilarity, lambda) ==
  NumSub(NumMul(lambda, relevance), NumMul(NumSub(One, lambda), maxSimilarity))

\* The indices of a set in descending order.
RECURSIVE InReverseOrder(_)
InReverseOrder(S) ==
  IF S = {} THEN <<>>
  ELSE LET m == CHOOSE x \in S : \A y \in S : x >= y IN <<m>> \o InReverseOrder(S \ {m})

\* The indices of a set in ascending order: the iteration order of the
\* Set built from the items array.
RECURSIVE InOrder(_)
InOrder(S) ==
  IF S = {} THEN <<>>
  ELSE LET m == CHOOSE x \in S : \A y \in S : x <= y IN <<m>> \o InOrder(S \ {m})

SelectedItems(its, sel) == [j \in DOMAIN sel |-> its[sel[j]]]

\* new Set(items): an object the array holds several times is in the Set
\* once, at the place of its first occurrence.  The field ref of an item
\* names the object: two entries of the array with the same ref are one
\* object.
SetOfItems(its) ==
  {i \in DOMAIN its : \A j \in 1..(i - 1) : its[j].ref # its[i].ref}

\* An MMR score: the number v together with what it was computed of, the
\* candidate's score, the score range of the call, the relevance and the
\* similarity (as rationals) and lambda.
MMRScoreOf(v, score, lo, hi, relevance, maxSim, lambda) ==
  [k |-> v.k, n |-> v.n, d |-> v.d,
   of |-> [score |-> score, lo |-> lo, hi |-> hi, relevance |-> relevance,
           maxSim |-> maxSim, lambda |-> lambda]]

\* The MMR score the loop computes for a candidate.
CandidateMMR(its, c, sel, cache, lo, hi, lambda) ==
  LET relevance == normalizeScore(its[c].score, lo, hi)
      maxSim == maxSimilarityToSelected(its[c], SelectedItems(its, sel), cache)
  IN MMRScoreOf(computeMMRScore(relevance, maxSim, lambda),
                its[c].score, lo, hi, relevance, maxSim, lambda)

\* The double the code computes as an MMR score: the subtractions and the
\* division of normalizeScore, the division of jaccardSimilarity and the
\* operations of computeMMRScore, each rounded.
DoubleMMR(t) ==
  LET lam == DoubleOfRat(t.lambda)
      scoreRange == DoubleSub(DoubleOfRat(t.hi), DoubleOfRat(t.lo))
      relevance ==
        IF scoreRange.s = 0 THEN DoubleOfRat(One)
        ELSE DoubleDiv(DoubleSub(DoubleOfRat(t.score), DoubleOfRat(t.lo)),
                       scoreRange)
  IN DoubleSub(DoubleMul(lam, relevance),
               DoubleMul(DoubleSub(DoubleOfRat(One), lam), DoubleOfRat(t.maxSim)))

\* The rational x is at most 2^(-20) in size.
IsTiny(x) == Abs(x.n) <= x.d \div Pow2(20)

\* The scores of the call are more than 2^10 times their range in size:
\* the subtraction of normalizeScore cancels.
ScoresCancel(t) ==
  LET size == IF NumGt(Zero, t.lo) /\ NumGt(NumSub(Zero, t.lo), t.hi)
                THEN NumSub(Zero, t.lo)
                ELSE IF NumGt(Zero, t.hi) THEN NumSub(Zero, t.hi) ELSE t.hi
      scoreRange == NumSub(t.hi, t.lo)
  IN /\ ~NumEq(scoreRange, Zero)
     /\ NumGt(size, NumMul(Rat(Pow2(10), 1), scoreRange))

\* The rounding of the doubles can decide how two MMR scores of one call
\* compare.  It cannot when lambda is 0 (the score is then the similarity
\* negated), when the two are computed of the same relevance and the same
\* similarity, when the score range is not finite (the relevance is then
\* 0), or when the rationals differ by more than 2^(-20) and the scores do
\* not cancel: the doubles are then within 2^(-40) of the rationals.
RoundingDecides(a, b) ==
  /\ IsNum(a) /\ IsNum(b)
  /\ IsNum(a.of.lo) /\ IsNum(a.of.hi)
  /\ ~NumEq(a.of.lambda, Zero)
  /\ ~(NumEq(a.of.relevance, b.of.relevance) /\ NumEq(a.of.maxSim, b.of.maxSim))
  /\ IsTiny(NumSub(a, b)) \/ ScoresCancel(a.of)

\* mmrScore > bestMMRScore and mmrScore === bestMMRScore
MMRScoreGt(a, b) ==
  \E x \in {a}, y \in {b} :
    IF RoundingDecides(x, y) THEN DoubleGt(DoubleMMR(x.of), DoubleMMR(y.of))
    ELSE NumGt(x, y)

MMRScoreEq(a, b) ==
  \E x \in {a}, y \in {b} :
    IF RoundingDecides(x, y) THEN DoubleMMR(x.of) = DoubleMMR(y.of)
    ELSE NumEq(x, y)

\* The replacement test of the inner loop; bestItem 0 is null.
ReplacesBestLowerScoreWins(its, c, mmrScore, best) ==
  \/ MMRScoreGt(mmrScore, best.bestMMRScore)
  \/ /\ MMRScoreEq(mmrScore, best.bestMMRScore)
     /\ best.bestItem # 0
     /\ NumGt(its[best.bestItem].score, its[c].score)

ReplacesBest(its, c, mmrScore, best) ==
  \/ MMRScoreGt(mmrScore, best.bestMMRScore)
  \/ /\ MMRScoreEq(mmrScore, best.bestMMRScore)
     /\ NumGt(its[c].score,
              IF best.bestItem = 0 THEN NegInfinity ELSE its[best.bestItem].score)

\* for (const candidate of remaining) { ... }
RECURSIVE ScanRemaining(_, _, _, _, _, _, _, _, _)
ScanRemaining(its, cands, k, sel, cache, lo, hi, lambda, best) ==
  IF k > Len(cands) THEN best
  ELSE LET c == cands[k]
           mmrScore == CandidateMMR(its, c, sel, cache, lo, hi, lambda)
       IN ScanRemaining(its, cands, k + 1, sel, cache, lo, hi, lambda,
            IF ReplacesBest(its, c, mmrScore, best)
              THEN [bestItem |-> c, bestMMRScore |-> mmrScore]
              ELSE best)

BestOfRound ==
  ScanRemaining(items, InOrder(remaining), 1, selected, tokenCache,
                minScore, maxScore, clampedLambda,
                [bestItem |-> 0, bestMMRScore |-> NegInfinity])

\* [...items].toSorted(comparefn), as node sorts an array of fewer than 64
\* elements: the run the array starts with is counted (and reversed when
\* it descends strictly), and the elements after it are put into it one
\* by one at the place a binary search finds.  The sort only looks at the
\* sign of what the comparator returns, and reads a NaN as 0.  For a
\* comparator that orders the elements this is a stable sort; with scores
\* that are NaN or undefined the comparator returns NaN for the pairs that
\* hold one, and the order is the one these steps leave.
\* work holds the positions of the items in the array being sorted.

\* (a, b) => b.score - a.score for the items at the positions x and y,
\* as the sort reads it: -1, 0 or 1.
SortCompare(its, x, y) ==
  LET v == NumSub(its[y].score, its[x].score)
  IN IF IsOrdered(v) THEN SignOf(v) ELSE 0

\* The length of the run work starts with, idx being the next position to
\* look at.
RECURSIVE RunLengthFrom(_, _, _, _)
RunLengthFrom(its, work, isDescending, idx) ==
  IF idx > Len(work) THEN idx - 1
  ELSE LET order == SortCompare(its, work[idx], work[idx - 1])
       IN IF (isDescending /\ order >= 0) \/ (~isDescending /\ order < 0)
            THEN idx - 1
            ELSE RunLengthFrom(its, work, isDescending, idx + 1)

ReverseRange(work, n) ==
  [i \in DOMAIN work |-> IF i <= n THEN work[n + 1 - i] ELSE work[i]]

\* The run at the start of work, of 2 elements or more, made ascending
\* in the order of the comparator.
CountAndMakeRun(its, work) ==
  LET isDescending == SortCompare(its, work[2], work[1]) < 0
      runLength == RunLengthFrom(its, work, isDescending, 3)
  IN [work |-> IF isDescending THEN ReverseRange(work, runLength) ELSE work,
      runLength |-> runLength]

\* The number of elements of work[1..right] the pivot goes behind.
RECURSIVE InsertionPoint(_, _, _, _, _)
InsertionPoint(its, work, pivot, left, right) ==
  IF left >= right THEN left
  ELSE LET mid == left + (right - left) \div 2
       IN IF SortCompare(its, pivot, work[mid + 1]) < 0
            THEN InsertionPoint(its, work, pivot, left, mid)
            ELSE InsertionPoint(its, work, pivot, mid + 1, right)

\* work[1..start-1] is sorted: the elements from start on are inserted.
RECURSIVE BinaryInsertionSort(_, _, _)
BinaryInsertionSort(its, work, start) ==
  IF start > Len(work) THEN work
  ELSE LET pivot == work[start]
           left == InsertionPoint(its, work, pivot, 0, start - 1)
       IN BinaryInsertionSort(
            its,
            SubSeq(work, 1, left) \o <<pivot>> \o SubSeq(work, left + 1, start - 1)
              \o SubSeq(work, start + 1, Len(work)),
            start + 1)

\* [...items].toSorted((a, b) => b.score - a.score): the positions of the
\* items in the order of the new array.
toSortedByScore(its) ==
  IF Len(its) < 2 THEN [i \in DOMAIN its |-> i]
  ELSE LET run == CountAndMakeRun(its, [i \in DOMAIN its |-> i])
       IN BinaryInsertionSort(its, run.work, run.runLength + 1)

(***************************************************************************)
(* applyMMRToHybridResults: the synthetic ids.                             *)
(***************************************************************************)
\* String(n) for a natural number.
RECURSIVE FormatNat(_)
FormatNat(n) ==
  IF n < 10 THEN <<Digits[n + 1]>> ELSE FormatNat(n \div 10) \o <<Digits[(n % 10) + 1]>>

\* `${r.path}:${r.startLine}:${index}`, index counted from 0
SyntheticId(r, index) ==
  r.path \o <<":">> \o FormatNat(r.startLine) \o <<":">> \o FormatNat(index)

BuildMmrItems(rs) ==
  [i \in DOMAIN rs |->
     [id |-> SyntheticId(rs[i], i - 1), score |-> rs[i].score,
      content |-> rs[i].snippet, ref |-> i]]

\* itemById.set(id, r) for each result in order: the last result with an
\* id decides its entry.
BuildItemById(rs) ==
  LET ids == BuildMmrItems(rs) IN
  [id \in {ids[i].id : i \in DOMAIN rs} |->
     CHOOSE i \in DOMAIN rs :
       /\ ids[i].id = id
       /\ \A j \in DOMAIN rs : ids[j].id = id => j <= i]

\* reranked.map((item) => itemById.get(item.id)!)
MapBack(its, order, byId) == [j \in DOMAIN order |-> byId[its[order[j]].id]]

(***************************************************************************)
(* applyTemporalDecayToHybridResults.                                      *)
(***************************************************************************)
DEFAULT_TEMPORAL_DECAY_CONFIG == [enabled |-> "false", halfLifeDays |-> Rat(30, 1)]

\* The merge with a default that enables the stage.
MergedDecayConfigEnabledByDefault(cfg) ==
  [enabled |-> IF cfg.enabled = "absent" THEN "true" ELSE cfg.enabled,
   halfLifeDays |-> IF cfg.halfLifeDays = Absent
                      THEN DEFAULT_TEMPORAL_DECAY_CONFIG.halfLifeDays
                      ELSE cfg.halfLifeDays]

\* const config = { ...DEFAULT_TEMPORAL_DECAY_CONFIG, ...params.temporalDecay }
\* The spread copies every key the argument has, also one whose value is
\* undefined; the default stays for a key the argument does not have.
MergedDecayConfig(cfg) ==
  [enabled |-> IF cfg.enabled = "absent"
                 THEN DEFAULT_TEMPORAL_DECAY_CONFIG.enabled ELSE cfg.enabled,
   halfLifeDays |-> IF cfg.halfLifeDays = Absent
                      THEN DEFAULT_TEMPORAL_DECAY_CONFIG.halfLifeDays
                      ELSE cfg.halfLifeDays]

\* `${entry.source}:${entry.path}`
CacheKey(e) == e.source \o <<":">> \o e.path

\* path.isAbsolute(filePath) of posix.
PathIsAbsolute(filePath) == Len(filePath) > 0 /\ filePath[1] = "/"

\* process.cwd(): an absolute path.
ProcessCwd == <<"/","c","w","d">>

\* The segments of a path between its slashes.
RECURSIVE SplitAtSlashes(_, _)
SplitAtSlashes(p, cur) ==
  IF p = <<>> THEN <<cur>>
  ELSE IF Head(p) = "/" THEN <<cur>> \o SplitAtSlashes(Tail(p), <<>>)
  ELSE SplitAtSlashes(Tail(p), Append(cur, Head(p)))

\* The segments of an absolute path in normal form: an empty segment and
\* "." are dropped, ".." drops the segment before it (and nothing at the
\* root).
RECURSIVE NormalizeSegments(_, _)
NormalizeSegments(segs, acc) ==
  IF segs = <<>> THEN acc
  ELSE LET s == Head(segs) IN
       IF s = <<>> \/ s = <<".">> THEN NormalizeSegments(Tail(segs), acc)
       ELSE IF s = <<".", ".">>
         THEN NormalizeSegments(Tail(segs),
                IF acc = <<>> THEN acc ELSE SubSeq(acc, 1, Len(acc) - 1))
       ELSE NormalizeSegments(Tail(segs), Append(acc, s))

RECURSIVE JoinSegments(_)
JoinSegments(segs) ==
  IF segs = <<>> THEN <<>>
  ELSE <<"/">> \o Head(segs) \o JoinSegments(Tail(segs))

\* path.resolve(dir, filePath) of posix: the arguments are put together
\* from the right until the path is absolute, with the working directory
\* in front when they do not make one, and the path is normalised.
PathResolve(dir, filePath) ==
  LET joined ==
        IF PathIsAbsolute(filePath) THEN filePath
        ELSE IF PathIsAbsolute(dir) THEN dir \o <<"/">> \o filePath
        ELSE ProcessCwd \o <<"/">> \o dir \o <<"/">> \o filePath
      segs == NormalizeSegments(SplitAtSlashes(joined, <<>>), <<>>)
  IN IF segs = <<>> THEN <<"/">> ELSE JoinSegments(segs)

\* extractTimestamp with the lookup ahead of the date in the path.
ExtractTimestampLookupFirst(filePath, source, dir) ==
  LET fromPath == parseMemoryDateFromPath(filePath) IN
  IF source = Src_memory /\ isEvergreenMemoryPath(filePath)
    THEN [stat |-> <<>>, value |-> NullDate]
  ELSE IF dir = <<>> THEN [stat |-> <<>>, value |-> fromPath]
  ELSE [stat |-> IF PathIsAbsolute(filePath) THEN filePath ELSE PathResolve(dir, filePath),
        value |-> NullDate]

\* extractTimestamp up to its await: the promise is settled at once
\* (stat is <<>>) or waits for fs.stat(stat).
extractTimestamp(filePath, source, dir) ==
  LET fromPath == parseMemoryDateFromPath(filePath) IN
  IF fromPath.k # "null" THEN [stat |-> <<>>, value |-> fromPath]
  ELSE IF source = Src_memory /\ isEvergreenMemoryPath(filePath)
    THEN [stat |-> <<>>, value |-> NullDate]
  ELSE IF dir = <<>> THEN [stat |-> <<>>, value |-> NullDate]
  ELSE [stat |-> IF PathIsAbsolute(filePath) THEN filePath ELSE PathResolve(dir, filePath),
        value |-> NullDate]

\* The rest of extractTimestamp: try { stat = await fs.stat(...);
\* if (!Number.isFinite(stat.mtimeMs)) return null;
\* return new Date(stat.mtimeMs) } catch { return null }
RejectedDate == [k |-> "rejected", d |-> 0, ms |-> 0]

\* new Date(t) for a finite t: a time value beyond 8.64e15 ms (100 000 000
\* days) either side of the epoch makes an invalid Date, whose getTime()
\* is NaN.  An invalid Date is an object and not null.
InvalidDate == [k |-> "invalid", d |-> 0, ms |-> 0]

NewDate(t) ==
  IF t.d < -100000000 \/ t.d > 100000000 \/ (t.d = 100000000 /\ t.ms > 0)
    THEN InvalidDate
    ELSE t

TimestampOfStatUncaught(o) ==
  IF o.k = "throws" THEN RejectedDate
  ELSE IF o.mtimeMs.k # "num" THEN NullDate
  ELSE NewDate(o.mtimeMs)

TimestampOfStat(o) ==
  IF o.k = "throws" THEN NullDate
  ELSE IF o.mtimeMs.k # "num" THEN NullDate
  ELSE NewDate(o.mtimeMs)

\* !timestampPromise after timestampPromiseCache.get(cacheKey)
CacheMissAlways(cache, key) == TRUE

CacheMiss(cache, key) == key \notin DOMAIN cache

\* The callback building its result from the fields the stage reads,
\* without the spread of the entry.
CallbackResultWithoutSpread(e, timestamp, now, cfg) ==
  IF timestamp.k = "null"
    THEN [path |-> e.path, source |-> e.source, startLine |-> e.startLine,
          score |-> Scaled(e.score, Zero), same |-> TRUE]
    ELSE [path |-> e.path, source |-> e.source, startLine |-> 0,
          score |-> applyTemporalDecayToScore(e.score,
                      ageInDaysFromTimestamp(timestamp, now), cfg.halfLifeDays),
          same |-> FALSE]

\* The map callback after its await: if (!timestamp) return entry;
\* return { ...entry, score: decayedScore }
CallbackResult(e, timestamp, now, cfg) ==
  IF timestamp.k = "null"
    THEN [path |-> e.path, source |-> e.source, startLine |-> e.startLine,
          score |-> Scaled(e.score, Zero), same |-> TRUE]
    ELSE [path |-> e.path, source |-> e.source, startLine |-> e.startLine,
          score |-> applyTemporalDecayToScore(e.score,
                      ageInDaysFromTimestamp(timestamp, now), cfg.halfLifeDays),
          same |-> FALSE]

Unset == [path |-> <<>>, source |-> <<>>, startLine |-> 0,
          score |-> Scaled(Zero, Zero), same |-> FALSE]

\* Promise.all: settled when every callback has returned.
PromiseAllAnyFulfilled(s) == DOMAIN s = {} \/ \E i \in DOMAIN s : s[i].done

PromiseAllFulfilled(s) == \A i \in DOMAIN s : s[i].done

\* The callbacks that wait for a settled promise run to their end.
RunCallbacks(s, cache, rs, now, cfg) ==
  [i \in DOMAIN s |->
     IF ~s[i].done /\ cache[CacheKey(rs[i])].settled
       THEN [done |-> TRUE,
             value |-> CallbackResult(rs[i], cache[CacheKey(rs[i])].value, now, cfg)]
       ELSE s[i]]

\* The module is loaded and enqueueCommand was not called.
QueueIdle ==
  /\ commands = <<>>
  /\ queue = <<>>
  /\ draining = FALSE
  /\ awaited = {}
  /\ taskState = <<>>
  /\ promise = <<>>
  /\ clock = 0
  /\ onWaitCalls = <<>>
  /\ drainFailed = FALSE

\* getReplyFromConfig was not called and no session was stored.
ReplyIdle ==
  /\ sessionStore = <<>>
  /\ replyCalls = <<>>
  /\ uuids = 0

ParseIdle ==
  /\ parsePath = <<>>
  /\ parsedDate = NullDate

\* No function of temporal-decay.ts was called.
BatchIdle ==
  /\ workspaceDir = <<>>
  /\ nowArg = UndefinedMs
  /\ nowMs = UndefinedMs
  /\ mapIndex = 0
  /\ timestampPromiseCache = <<>>
  /\ slots = <<>>
  /\ extractCalls = <<>>
  /\ statCalls = <<>>
  /\ statSettled = <<>>
  /\ decayed = <<>>
  /\ ageInDays = Undefined
  /\ halfLifeDays = Undefined
  /\ multiplier = Scaled(Zero, Zero)

DecayIdle ==
  /\ ParseIdle
  /\ QueueIdle
  /\ ReplyIdle
  /\ BatchIdle

(***************************************************************************)
(* Initial states: one call of an exported function with its arguments.    *)
(***************************************************************************)
Idle ==
  /\ itemById = <<>>
  /\ clampedLambda = Undefined
  /\ tokenCache = <<>>
  /\ maxScore = Undefined
  /\ minScore = Undefined
  /\ selected = <<>>
  /\ remaining = {}
  /\ safetyExit = FALSE
  /\ reranked = <<>>
  /\ output = <<>>
  /\ outputIsInput = FALSE
  /\ similarity = Undefined

InitRerank ==
  /\ entry = "mmrRerank"
  /\ pc = "mmrRerank"
  /\ results = <<>>
  /\ config \in Configs
  /\ \E cs \in SeqsUpTo(ItemPool, MaxItems) :
       items = [i \in DOMAIN cs |->
                  [id |-> ItemIds[i], score |-> cs[i][2], content |-> cs[i][1],
                   ref |-> i]]
  /\ setA = {} /\ setB = {}
  /\ Idle
  /\ DecayIdle

\* mmrRerank called with the arguments of one of RerankCases.
InitRerankCase ==
  /\ entry = "mmrRerank"
  /\ pc = "mmrRerank"
  /\ results = <<>>
  /\ \E case \in RerankCases :
       /\ Len(case.items) <= MaxItems
       /\ items = case.items
       /\ config = case.config
  /\ setA = {} /\ setB = {}
  /\ Idle
  /\ DecayIdle

InitHybrid ==
  /\ entry = "applyMMRToHybridResults"
  /\ pc = "applyMMRToHybridResults"
  /\ results \in SeqsUpTo(HybridPool, MaxItems)
  /\ config \in Configs
  /\ items = <<>>
  /\ setA = {} /\ setB = {}
  /\ Idle
  /\ DecayIdle

InitJaccard ==
  /\ entry = "jaccardSimilarity"
  /\ pc = "jaccardSimilarity"
  /\ results = <<>>
  /\ config = [enabled |-> "absent", lambda |-> Undefined]
  /\ items = <<>>
  /\ setA \in SUBSET TokenUniverse
  /\ setB \in SUBSET TokenUniverse
  /\ Idle
  /\ DecayIdle

Init == InitRerank \/ InitRerankCase \/ InitHybrid \/ InitJaccard

(***************************************************************************)
(* Actions.                                                                *)
(***************************************************************************)
\* if (!enabled || items.length <= 1) return [...items];
RerankEarlyExit ==
  /\ UNCHANGED <<decayVars, queueVars, replyVars>>
  /\ pc = "mmrRerank"
  /\ ~ConfigEnabled(config) \/ Len(items) <= 1
  /\ reranked' = [i \in DOMAIN items |-> i]
  /\ pc' = "mmrReturned"
  /\ UNCHANGED <<entry, results, config, items, itemById, mmrLocals, output,
                 outputIsInput, setA, setB, similarity>>

\* if (clampedLambda === 1) return [...items].toSorted(...)
RerankSortOnly ==
  /\ UNCHANGED <<decayVars, queueVars, replyVars>>
  /\ pc = "mmrRerank"
  /\ ConfigEnabled(config) /\ Len(items) > 1
  /\ NumEq(ClampLambda(ConfigLambda(config)), One)
  /\ clampedLambda' = ClampLambda(ConfigLambda(config))
  /\ reranked' = toSortedByScore(items)
  /\ pc' = "mmrReturned"
  /\ UNCHANGED <<entry, results, config, items, itemById, tokenCache, maxScore,
                 minScore, selected, remaining, safetyExit, output,
                 outputIsInput, setA, setB, similarity>>

\* The token cache, the score range, the empty selection and the Set of
\* all items.
RerankPrepare ==
  /\ UNCHANGED <<decayVars, queueVars, replyVars>>
  /\ pc = "mmrRerank"
  /\ ConfigEnabled(config) /\ Len(items) > 1
  /\ ~NumEq(ClampLambda(ConfigLambda(config)), One)
  /\ clampedLambda' = ClampLambda(ConfigLambda(config))
  /\ tokenCache' = BuildTokenCache(items)
  /\ maxScore' = MaxOf(ItemScores(items), 1)
  /\ minScore' = MinOf(ItemScores(items), 1)
  /\ selected' = <<>>
  /\ remaining' = SetOfItems(items)
  /\ pc' = "loop"
  /\ UNCHANGED <<entry, results, config, items, itemById, safetyExit, reranked,
                 output, outputIsInput, setA, setB, similarity>>

\* One round of the while loop that finds a best item.
RerankSelect ==
  /\ UNCHANGED <<decayVars, queueVars, replyVars>>
  /\ pc = "loop"
  /\ remaining # {}
  /\ \E best \in {BestOfRound} :
       /\ best.bestItem # 0
       /\ selected' = Append(selected, best.bestItem)
       /\ remaining' = remaining \ {best.bestItem}
  /\ UNCHANGED <<entry, pc, results, config, items, itemById, clampedLambda,
                 tokenCache, maxScore, minScore, safetyExit, reranked, output,
                 outputIsInput, setA, setB, similarity>>

\* One round of the while loop that finds none: break, return selected.
RerankSafetyExit ==
  /\ UNCHANGED <<decayVars, queueVars, replyVars>>
  /\ pc = "loop"
  /\ remaining # {}
  /\ BestOfRound.bestItem = 0
  /\ safetyExit' = TRUE
  /\ reranked' = selected
  /\ pc' = "mmrReturned"
  /\ UNCHANGED <<entry, results, config, items, itemById, clampedLambda,
                 tokenCache, maxScore, minScore, selected, remaining, output,
                 outputIsInput, setA, setB, similarity>>

\* remaining.size is 0: return selected.
RerankReturn ==
  /\ UNCHANGED <<decayVars, queueVars, replyVars>>
  /\ pc = "loop"
  /\ remaining = {}
  /\ reranked' = selected
  /\ pc' = "mmrReturned"
  /\ UNCHANGED <<entry, results, config, items, itemById, mmrLocals, output,
                 outputIsInput, setA, setB, similarity>>

\* if (results.length === 0) return results;
HybridEmpty ==
  /\ UNCHANGED <<decayVars, queueVars, replyVars>>
  /\ pc = "applyMMRToHybridResults"
  /\ Len(results) = 0
  /\ output' = results
  /\ outputIsInput' = TRUE
  /\ pc' = "done"
  /\ UNCHANGED <<entry, results, config, items, itemById, mmrLocals, reranked,
                 setA, setB, similarity>>

\* Build itemById and mmrItems, call mmrRerank(mmrItems, config).
HybridBuild ==
  /\ UNCHANGED <<decayVars, queueVars, replyVars>>
  /\ pc = "applyMMRToHybridResults"
  /\ Len(results) # 0
  /\ items' = BuildMmrItems(results)
  /\ itemById' = BuildItemById(results)
  /\ pc' = "mmrRerank"
  /\ UNCHANGED <<entry, results, config, mmrLocals, reranked, output,
                 outputIsInput, setA, setB, similarity>>

\* return reranked.map((item) => itemById.get(item.id)!)
HybridMapBack ==
  /\ UNCHANGED <<decayVars, queueVars, replyVars>>
  /\ entry = "applyMMRToHybridResults"
  /\ pc = "mmrReturned"
  /\ output' = MapBack(items, reranked, itemById)
  /\ pc' = "done"
  /\ UNCHANGED <<entry, results, config, items, itemById, mmrLocals, reranked,
                 outputIsInput, setA, setB, similarity>>

JaccardCall ==
  /\ UNCHANGED <<decayVars, queueVars, replyVars>>
  /\ pc = "jaccardSimilarity"
  /\ similarity' = jaccardSimilarity(setA, setB)
  /\ pc' = "done"
  /\ UNCHANGED <<entry, results, config, items, itemById, mmrLocals, reranked,
                 output, outputIsInput, setA, setB>>

Next ==
  \/ RerankEarlyExit
  \/ RerankSortOnly
  \/ RerankPrepare
  \/ RerankSelect
  \/ RerankSafetyExit
  \/ RerankReturn
  \/ HybridEmpty
  \/ HybridBuild
  \/ HybridMapBack
  \/ JaccardCall

Spec == Init /\ [][Next]_vars

(***************************************************************************)
(* Temporal decay: one call of applyTemporalDecayToHybridResults or of     *)
(* calculateTemporalDecayMultiplier.  The synchronous part of the batch    *)
(* (results.map) runs entry by entry; the callbacks whose promise is       *)
(* already settled continue when it ends; each fs.stat then settles in     *)
(* any order, and the callbacks that wait for it continue at once.         *)
(***************************************************************************)
InitDecayBatch ==
  /\ entry = "applyTemporalDecayToHybridResults"
  /\ pc = "applyTemporalDecayToHybridResults"
  /\ results \in SeqsUpTo(DecayResultPool, MaxBatch)
  /\ config \in DecayConfigs
  /\ workspaceDir \in WorkspaceDirs
  /\ nowArg \in NowArgs
  /\ nowMs = UndefinedMs
  /\ mapIndex = 0
  /\ timestampPromiseCache = <<>>
  /\ slots = <<>>
  /\ extractCalls = <<>>
  /\ statCalls = <<>>
  /\ statSettled = <<>>
  /\ decayed = <<>>
  /\ ageInDays = Undefined
  /\ halfLifeDays = Undefined
  /\ multiplier = Scaled(Zero, Zero)
  /\ items = <<>>
  /\ setA = {} /\ setB = {}
  /\ Idle
  /\ ParseIdle
  /\ QueueIdle
  /\ ReplyIdle

InitMultiplier ==
  /\ entry = "calculateTemporalDecayMultiplier"
  /\ pc = "calculateTemporalDecayMultiplier"
  /\ ageInDays \in AgePool
  /\ halfLifeDays \in HalfLifePool
  /\ multiplier = Scaled(Zero, Zero)
  /\ results = <<>>
  /\ config = [enabled |-> "absent", halfLifeDays |-> Absent]
  /\ workspaceDir = <<>>
  /\ nowArg = UndefinedMs
  /\ nowMs = UndefinedMs
  /\ mapIndex = 0
  /\ timestampPromiseCache = <<>>
  /\ slots = <<>>
  /\ extractCalls = <<>>
  /\ statCalls = <<>>
  /\ statSettled = <<>>
  /\ decayed = <<>>
  /\ items = <<>>
  /\ setA = {} /\ setB = {}
  /\ Idle
  /\ ParseIdle
  /\ QueueIdle
  /\ ReplyIdle

InitParse ==
  /\ entry = "parseMemoryDateFromPath"
  /\ pc = "parseMemoryDateFromPath"
  /\ parsePath \in ParsePathPool
  /\ parsedDate = NullDate
  /\ results = <<>>
  /\ config = [enabled |-> "absent", halfLifeDays |-> Absent]
  /\ workspaceDir = <<>>
  /\ nowArg = UndefinedMs
  /\ nowMs = UndefinedMs
  /\ mapIndex = 0
  /\ timestampPromiseCache = <<>>
  /\ slots = <<>>
  /\ extractCalls = <<>>
  /\ statCalls = <<>>
  /\ statSettled = <<>>
  /\ decayed = <<>>
  /\ ageInDays = Undefined
  /\ halfLifeDays = Undefined
  /\ multiplier = Scaled(Zero, Zero)
  /\ items = <<>>
  /\ setA = {} /\ setB = {}
  /\ Idle
  /\ QueueIdle
  /\ ReplyIdle

DecayInit == InitDecayBatch \/ InitMultiplier \/ InitParse

mmrVars ==
  <<items, itemById, mmrLocals, reranked, output, setA, setB, similarity>>

\* if (!config.enabled) return [...params.results];
DecayDisabled ==
  /\ pc = "applyTemporalDecayToHybridResults"
  /\ MergedDecayConfig(config).enabled # "true"
  /\ decayed' = [i \in DOMAIN results |->
                   [path |-> results[i].path, source |-> results[i].source,
                    startLine |-> results[i].startLine,
                    score |-> Scaled(results[i].score, Zero), same |-> TRUE]]
  /\ outputIsInput' = FALSE
  /\ pc' = "done"
  /\ UNCHANGED <<entry, results, config, workspaceDir, nowArg, batchLocals,
                 ageInDays, halfLifeDays, multiplier, mmrVars, parseVars,
                 queueVars, replyVars>>

\* const nowMs = params.nowMs ?? Date.now(); the empty cache; the start
\* of results.map.
DecayBegin ==
  /\ pc = "applyTemporalDecayToHybridResults"
  /\ MergedDecayConfig(config).enabled = "true"
  /\ IF nowArg = UndefinedMs THEN nowMs' \in ClockValues ELSE nowMs' = nowArg
  /\ timestampPromiseCache' = <<>>
  /\ slots' = [i \in DOMAIN results |-> [done |-> FALSE, value |-> Unset]]
  /\ mapIndex' = 0
  /\ pc' = IF Len(results) = 0 THEN "await" ELSE "map"
  /\ UNCHANGED <<entry, results, config, workspaceDir, nowArg, extractCalls,
                 statCalls, statSettled, decayed, outputIsInput, ageInDays, halfLifeDays,
                 multiplier, mmrVars, parseVars,
                 queueVars, replyVars>>

\* The map callback for the next entry, up to its await: the cache
\* lookup and, on a miss, the call of extractTimestamp.
DecayMapEntry ==
  /\ pc = "map"
  /\ LET i == mapIndex + 1
         key == CacheKey(results[i])
         miss == CacheMiss(timestampPromiseCache, key)
         started == extractTimestamp(results[i].path, results[i].source, workspaceDir)
     IN /\ timestampPromiseCache' =
             IF miss
               THEN [c \in DOMAIN timestampPromiseCache \cup {key} |->
                       IF c = key
                         THEN [settled |-> started.stat = <<>>,
                               value |-> started.value,
                               stat |-> started.stat,
                               outcome |-> NoStat]
                         ELSE timestampPromiseCache[c]]
               ELSE timestampPromiseCache
        /\ extractCalls' = IF miss THEN Append(extractCalls, key) ELSE extractCalls
        /\ statCalls' = IF miss /\ started.stat # <<>>
                          THEN Append(statCalls, [key |-> key, path |-> started.stat])
                          ELSE statCalls
        /\ mapIndex' = i
        /\ pc' = IF i = Len(results) THEN "microtasks" ELSE "map"
  /\ UNCHANGED <<entry, results, config, workspaceDir, nowArg, nowMs, slots,
                 statSettled, decayed, outputIsInput, ageInDays, halfLifeDays, multiplier,
                 mmrVars, parseVars,
                 queueVars, replyVars>>

\* results.map has returned: the callbacks whose promise is settled
\* continue.
DecayMicrotasks ==
  /\ pc = "microtasks"
  /\ slots' = RunCallbacks(slots, timestampPromiseCache, results, nowMs,
                           MergedDecayConfig(config))
  /\ pc' = "await"
  /\ UNCHANGED <<entry, results, config, workspaceDir, nowArg, nowMs, mapIndex,
                 timestampPromiseCache, extractCalls, statCalls, statSettled, decayed,
                 outputIsInput, ageInDays, halfLifeDays, multiplier, mmrVars, parseVars,
                 queueVars, replyVars>>

\* One fs.stat settles; extractTimestamp returns, and the callbacks that
\* wait for its promise continue.
StatSettle ==
  /\ pc = "await"
  /\ \E key \in DOMAIN timestampPromiseCache, o \in StatOutcomes :
       /\ ~timestampPromiseCache[key].settled
       /\ LET timestamp == TimestampOfStat(o)
              cache == [timestampPromiseCache EXCEPT
                          ![key] = [settled |-> TRUE, value |-> timestamp,
                                    stat |-> @.stat, outcome |-> o]]
          IN /\ timestampPromiseCache' = cache
             /\ statSettled' = Append(statSettled, key)
             /\ IF timestamp.k = "rejected"
                  THEN /\ pc' = "rejected"
                       /\ slots' = slots
                  ELSE /\ pc' = pc
                       /\ slots' = RunCallbacks(slots, cache, results, nowMs,
                                                MergedDecayConfig(config))
  /\ UNCHANGED <<entry, results, config, workspaceDir, nowArg, nowMs, mapIndex,
                 extractCalls, statCalls, decayed, outputIsInput, ageInDays,
                 halfLifeDays, multiplier, mmrVars, parseVars,
                 queueVars, replyVars>>

\* Promise.all settles: the results of the callbacks, by index.
DecayReturn ==
  /\ pc = "await"
  /\ PromiseAllFulfilled(slots)
  /\ decayed' = [i \in DOMAIN slots |-> slots[i].value]
  /\ outputIsInput' = FALSE
  /\ pc' = "done"
  /\ UNCHANGED <<entry, results, config, workspaceDir, nowArg, batchLocals,
                 ageInDays, halfLifeDays, multiplier, mmrVars, parseVars,
                 queueVars, replyVars>>

MultiplierCall ==
  /\ pc = "calculateTemporalDecayMultiplier"
  /\ multiplier' = calculateTemporalDecayMultiplier(ageInDays, halfLifeDays)
  /\ pc' = "done"
  /\ UNCHANGED <<entry, results, config, workspaceDir, nowArg, batchLocals,
                 decayed, outputIsInput, ageInDays, halfLifeDays, mmrVars, parseVars,
                 queueVars, replyVars>>

ParseCall ==
  /\ pc = "parseMemoryDateFromPath"
  /\ parsedDate' = parseMemoryDateFromPath(parsePath)
  /\ pc' = "done"
  /\ UNCHANGED <<entry, results, config, workspaceDir, nowArg, batchLocals,
                 decayed, outputIsInput, ageInDays, halfLifeDays, multiplier,
                 parsePath, mmrVars, queueVars, replyVars>>

DecayNext ==
  \/ DecayDisabled
  \/ DecayBegin
  \/ DecayMapEntry
  \/ DecayMicrotasks
  \/ StatSettle
  \/ DecayReturn
  \/ MultiplierCall
  \/ ParseCall

DecaySpec == DecayInit /\ [][DecayNext]_vars

(***************************************************************************)
(* The same stage on batches whose source tags and paths hold ':', the     *)
(* character the cache key joins them with.  The type of a result has     *)
(* source: string and path: string.                                        *)
(***************************************************************************)
Src_a == <<"a">>
Src_a_colon_b == <<"a",":","b">>
Path_b_colon_memory_2024_02_29 ==
  <<"b",":","m","e","m","o","r","y","/","2","0","2","4","-","0","2","-","2","9",".","m","d">>

ColonResultPool ==
  {[path |-> Path_b_colon_memory_2024_02_29, source |-> Src_a,
    startLine |-> 1, score |-> Rat(1, 1)],
   [path |-> Path_memory_2024_02_29, source |-> Src_a_colon_b,
    startLine |-> 2, score |-> Rat(4, 5)],
   [path |-> Path_memory_2024_02_29, source |-> Src_a,
    startLine |-> 3, score |-> Rat(1, 2)]}

InitDecayColonBatch ==
  /\ entry = "applyTemporalDecayToHybridResults"
  /\ pc = "applyTemporalDecayToHybridResults"
  /\ results \in SeqsUpTo(ColonResultPool, MaxBatch)
  /\ config \in DecayConfigs
  /\ workspaceDir \in WorkspaceDirs
  /\ nowArg \in NowArgs
  /\ nowMs = UndefinedMs
  /\ mapIndex = 0
  /\ timestampPromiseCache = <<>>
  /\ slots = <<>>
  /\ extractCalls = <<>>
  /\ statCalls = <<>>
  /\ statSettled = <<>>
  /\ decayed = <<>>
  /\ ageInDays = Undefined
  /\ halfLifeDays = Undefined
  /\ multiplier = Scaled(Zero, Zero)
  /\ items = <<>>
  /\ setA = {} /\ setB = {}
  /\ Idle
  /\ ParseIdle
  /\ QueueIdle
  /\ ReplyIdle

DecayColonSpec == (DecayInit \/ InitDecayColonBatch) /\ [][DecayNext]_vars

(***************************************************************************)
(* The command queue (process/command-queue.ts): calls of enqueueCommand   *)
(* from any caller, in any order with the settling of the tasks.  A step   *)
(* is one run of JavaScript to its next await: a call of enqueueCommand    *)
(* with the part of drainQueue it runs, or the part of drainQueue that     *)
(* follows the settling of the awaited task.  A task is known by what it   *)
(* does: it returns a promise that is fulfilled or rejected later, or it   *)
(* throws when called; a task's value or error is tagged with the index    *)
(* of its call, so that the outcomes of two tasks are never equal.         *)
(***************************************************************************)
MaxCommands == 3

\* The arguments of enqueueCommand: what the task does, opts.warnAfterMs
\* (<<>> when absent) and what opts.onWait does ("absent" when absent).
CommandPool ==
  {[task |-> "returns", warnAfterMs |-> <<>>, onWait |-> "absent"],
   [task |-> "rejects", warnAfterMs |-> <<>>, onWait |-> "returns"],
   [task |-> "throws", warnAfterMs |-> <<>>, onWait |-> "absent"],
   [task |-> "returns", warnAfterMs |-> <<5>>, onWait |-> "returns"],
   [task |-> "returns", warnAfterMs |-> <<5>>, onWait |-> "throws"],
   [task |-> "rejects", warnAfterMs |-> <<0>>, onWait |-> "returns"]}

\* The values of Date.now().
ClockPool == {0, 5, 2000}

\* What Date.now() returns at the n reads of one run of JavaScript: the
\* first read is the time the run starts at, and the time does not go
\* back between two reads.
ClockReads(from, pool, n) ==
  {s \in [1..n -> pool \cup {from}] :
     /\ n > 0 => s[1] = from
     /\ \A i \in 1..(n - 1) : s[i] <= s[i + 1]}

\* const warnAfterMs = opts?.warnAfterMs ?? 2_000
DEFAULT_WARN_AFTER_MS == 2000

WarnAfterMsOf(opts) ==
  IF opts.warnAfterMs = <<>> THEN DEFAULT_WARN_AFTER_MS ELSE opts.warnAfterMs[1]

\* What a task ended with: the value it returned or the error it threw
\* or rejected with.
NoOutcome == [kind |-> "none", of |-> 0]
TaskOutcome(e, task) ==
  IF task = "returns" THEN [kind |-> "value", of |-> e]
  ELSE [kind |-> "error", of |-> e]

\* try { entry.resolve(await entry.task()) } catch (err) { entry.reject(err) }
PendingPromise == [state |-> "pending", value |-> NoOutcome]

SettledWithResolveOnly(outcome) == [state |-> "fulfilled", value |-> outcome]

SettledWith(outcome) ==
  IF outcome.kind = "value"
    THEN [state |-> "fulfilled", value |-> outcome]
    ELSE [state |-> "rejected", value |-> outcome]

\* The state of the module as one record.
QueueState ==
  [commands |-> commands, queue |-> queue, draining |-> draining,
   awaited |-> awaited, taskState |-> taskState, promise |-> promise,
   clock |-> clock, onWaitCalls |-> onWaitCalls, drainFailed |-> drainFailed]

\* queue.pop(): the entry pushed last.
QueuePop(q) == [entry |-> q[Len(q)], rest |-> SubSeq(q, 1, Len(q) - 1)]

\* queue.shift(): the entry pushed first, and what is left.
QueueShift(q) == [entry |-> Head(q), rest |-> Tail(q)]

\* while (queue.length) { ... } draining = false, from the head of the
\* loop to the await of a task that returned a promise, to an exception
\* that leaves drainQueue (thrown by onWait, outside the try), or to the
\* end of the loop.  A task that throws when called is caught and its
\* entry rejected without leaving the loop.  Each turn of the loop reads
\* Date.now(): nows holds what the reads return, in order, one for each
\* entry of the queue.
RECURSIVE DrainLoop(_, _)
DrainLoop(st, nows) ==
  IF st.queue = <<>> THEN [st EXCEPT !.draining = FALSE]
  ELSE
    LET e == QueueShift(st.queue).entry
        rest == QueueShift(st.queue).rest
        c == st.commands[e]
        now == Head(nows)
        waitedMs == now - c.enqueuedAt
        warns == waitedMs >= c.warnAfterMs /\ c.onWait # "absent"
        shifted ==
          [st EXCEPT !.queue = rest,
                     !.clock = now,
                     !.onWaitCalls =
                       IF warns
                         THEN Append(@, [entry |-> e, waitMs |-> waitedMs,
                                         queuedAhead |-> Len(rest)])
                         ELSE @]
    IN IF warns /\ c.onWait = "throws"
         THEN [shifted EXCEPT !.drainFailed = TRUE]
       ELSE IF c.task = "throws"
         THEN DrainLoop([shifted EXCEPT
                           !.taskState[e] = "rejected",
                           !.promise[e] = SettledWith(TaskOutcome(e, c.task))],
                        Tail(nows))
       ELSE [shifted EXCEPT !.taskState[e] = "executing",
                            !.awaited = @ \cup {e}]

\* drainQueue without its guard.
DrainQueueAlways(st, nows) == DrainLoop([st EXCEPT !.draining = TRUE], nows)

\* async function drainQueue() { if (draining) return; draining = true; ... }
drainQueue(st, nows) ==
  IF st.draining THEN st ELSE DrainLoop([st EXCEPT !.draining = TRUE], nows)

\* export function getQueueSize()
getQueueSize == Len(queue) + (IF draining THEN 1 ELSE 0)

QueueInit ==
  /\ entry = "enqueueCommand"
  /\ pc = "idle"
  /\ results = <<>>
  /\ config = [enabled |-> "absent", halfLifeDays |-> Absent]
  /\ items = <<>>
  /\ setA = {} /\ setB = {}
  /\ Idle
  /\ DecayIdle

searchVars ==
  <<entry, pc, results, config, items, itemById, clampedLambda, tokenCache,
    maxScore, minScore, selected, remaining, safetyExit, reranked, output,
    outputIsInput, setA, setB, similarity, decayVars>>

memoryVars == <<searchVars, replyVars>>

\* The variables of the module take the fields of the record.
QueueBecomes(st) ==
  /\ commands' = st.commands
  /\ queue' = st.queue
  /\ draining' = st.draining
  /\ awaited' = st.awaited
  /\ taskState' = st.taskState
  /\ promise' = st.promise
  /\ clock' = st.clock
  /\ onWaitCalls' = st.onWaitCalls
  /\ drainFailed' = st.drainFailed

\* enqueueCommand(task, opts): the entry is pushed with the time of the
\* first read of Date.now() and drainQueue is called, in the executor of
\* the promise that is returned.  nows holds what the reads of Date.now()
\* return: enqueuedAt first, then the reads of the loop of drainQueue, one
\* for each entry it shifts; the loop takes the reads it makes from the
\* front of nows and leaves the others.
enqueueCommand(st, opts, nows) ==
  drainQueue(
    [st EXCEPT
       !.commands = Append(@, [task |-> opts.task,
                               warnAfterMs |-> WarnAfterMsOf(opts),
                               onWait |-> opts.onWait,
                               enqueuedAt |-> Head(nows)]),
       !.queue = Append(@, Len(st.commands) + 1),
       !.taskState = Append(@, "notStarted"),
       !.promise = Append(@, PendingPromise),
       !.clock = Head(nows)],
    Tail(nows))

EnqueueCommand ==
  /\ Len(commands) < MaxCommands
  /\ \E opts \in CommandPool,
        nows \in ClockReads(clock, ClockPool, Len(queue) + 2) :
       QueueBecomes(enqueueCommand(QueueState, opts, nows))
  /\ UNCHANGED memoryVars

\* The promise a task returned is fulfilled or rejected.
TaskSettles ==
  /\ \E e \in awaited :
       /\ taskState[e] = "executing"
       /\ taskState' = [taskState EXCEPT
                          ![e] = IF commands[e].task = "returns"
                                   THEN "fulfilled" ELSE "rejected"]
  /\ UNCHANGED <<commands, queue, draining, awaited, promise, clock,
                 onWaitCalls, drainFailed, memoryVars>>

\* drainQueue continues after its await: the entry is resolved or
\* rejected and the loop goes on.  The continuation runs at one of the
\* times froms that is not before the last read of the clock, and the
\* reads of the loop follow from there.
DrainResumeAt(froms, pool) ==
  /\ \E e \in awaited, now \in froms :
       /\ now >= clock
       /\ taskState[e] \in {"fulfilled", "rejected"}
       /\ \E nows \in ClockReads(now, pool, Len(queue)) :
            QueueBecomes(
              DrainLoop([QueueState EXCEPT
                           !.awaited = @ \ {e},
                           !.promise[e] =
                             SettledWith(TaskOutcome(e, commands[e].task))],
                        nows))
  /\ UNCHANGED memoryVars

\* The time that passes before the continuation is a step of its own, Tick.
DrainResume == DrainResumeAt({clock}, ClockPool)

\* Time passes.
Tick ==
  /\ \E t \in ClockPool : t > clock /\ clock' = t
  /\ UNCHANGED <<commands, queue, draining, awaited, taskState, promise,
                 onWaitCalls, drainFailed, memoryVars>>

QueueNext ==
  \/ EnqueueCommand
  \/ TaskSettles
  \/ DrainResume
  \/ Tick

QueueSpec == QueueInit /\ [][QueueNext]_vars

\* The same with the scheduling of the event loop: a task that can settle
\* is let to, and a continuation that is ready runs.
QueueFairSpec ==
  QueueSpec /\ WF_vars(TaskSettles) /\ WF_vars(DrainResume)

(***************************************************************************)
(* getReplyFromConfig (agents/pi-embedded-subscribe.e2e-harness.ts): the   *)
(* auto-reply for an inbound message.  The calls come from any caller      *)
(* and overlap: a call is suspended at each of its awaits (the saving of   *)
(* the session store, onReplyStart, the command on the queue above) and a  *)
(* step is one run of JavaScript to the next await.  Strings are tuples    *)
(* of characters; an optional value is <<>> when undefined and <<v>>       *)
(* otherwise.  The modules the function imports its helpers from           *)
(* (templating, config/sessions, claude) are not part of the sources:      *)
(* applyTemplate, deriveSessionKey, the store file and the constants are   *)
(* taken as the tests of index.core.test.ts use them.                      *)
(***************************************************************************)
MaxReplyCalls == 2

Str_new == <<"/","n","e","w">>
Str_hi == <<"h","i">>
Str_new_hi == <<"/","n","e","w"," "," ","h","i">>
Str_sp_new_nl == <<" ","/","n","e","w","\n">>
Str_newx == <<"/","n","e","w","x">>
Str_dash_p == <<"-","p">>
Str_print == <<"-","-","p","r","i","n","t">>
Str_output_format == <<"-","-","o","u","t","p","u","t","-","f","o","r","m","a","t">>
Str_output_format_eq == <<"-","-","o","u","t","p","u","t","-","f","o","r","m","a","t","=">>
Str_output_format_json == <<"-","-","o","u","t","p","u","t","-","f","o","r","m","a","t","=","j","s","o","n">>
Str_text == <<"t","e","x","t">>
Str_json == <<"j","s","o","n">>
Str_echo == <<"e","c","h","o">>
Str_claude == <<"c","l","a","u","d","e">>
Str_bin_claude == <<"/","b","i","n","/","c","l","a","u","d","e">>
Str_tmpl == <<"[","t","]">>
Str_pfx == <<"[","p","]"," ">>
Str_Body_template == <<"{","{","B","o","d","y","}","}">>
Str_SessionId_template == <<"{","{","S","e","s","s","i","o","n","I","d","}","}">>
Str_Re_Body == <<"R",":","{","{","F","r","o","m","}","}"," ","{","{","B","o","d","y","}","}">>
Str_sid == <<"-","-","s","i","d">>
Str_resume == <<"-","-","r","e","s","u","m","e">>
Str_session_id == <<"-","-","s","e","s","s","i","o","n","-","i","d">>
Str_whatsapp_colon == <<"w","h","a","t","s","a","p","p",":">>
Str_plus_1 == <<"+","1">>
Str_plus_2 == <<"+","2">>
Str_whatsapp_plus_1 == <<"w","h","a","t","s","a","p","p",":","+","1">>
Str_global == <<"g","l","o","b","a","l">>
Str_true == <<"t","r","u","e">>
Str_false == <<"f","a","l","s","e">>
Str_ok == <<"o","k">>
Str_ok_nl == <<"o","k","\n">>
Str_answer == <<"a","n","s","w","e","r">>
Key_Body == <<"B","o","d","y">>
Key_BodyStripped == <<"B","o","d","y","S","t","r","i","p","p","e","d">>
Key_From == <<"F","r","o","m">>
Key_SessionId == <<"S","e","s","s","i","o","n","I","d">>
Key_IsNewSession == <<"I","s","N","e","w","S","e","s","s","i","o","n">>

\* String.prototype.trimStart, trimEnd, trim strip the white space and
\* the line terminators of ECMAScript.  A character that a string of
\* the model cannot hold is written as its code point.
WhiteSpace ==
  {"\t", "U+000B", "\f", " ", "U+00A0", "U+1680", "U+2000", "U+2001",
   "U+2002", "U+2003", "U+2004", "U+2005", "U+2006", "U+2007", "U+2008",
   "U+2009", "U+200A", "U+202F", "U+205F", "U+3000", "U+FEFF"}
LineTerminator == {"\n", "\r", "U+2028", "U+2029"}

IsWhiteSpace(ch) == ch \in WhiteSpace \cup LineTerminator

RECURSIVE TrimStart(_)
TrimStart(s) ==
  IF s # <<>> /\ IsWhiteSpace(Head(s)) THEN TrimStart(Tail(s)) ELSE s

RECURSIVE TrimEnd(_)
TrimEnd(s) ==
  IF s # <<>> /\ IsWhiteSpace(s[Len(s)])
    THEN TrimEnd(SubSeq(s, 1, Len(s) - 1))
    ELSE s

Trim(s) == TrimEnd(TrimStart(s))

\* String.prototype.slice(start) with start within the string.
SliceFrom(s, start) == SubSeq(s, start + 1, Len(s))

\* path.basename (posix): the slashes at the end are dropped, and what
\* follows the last "/" of the rest is the name.
RECURSIVE WithoutTrailingSlashes(_)
WithoutTrailingSlashes(p) ==
  IF p # <<>> /\ p[Len(p)] = "/"
    THEN WithoutTrailingSlashes(SubSeq(p, 1, Len(p) - 1))
    ELSE p

RECURSIVE AfterLastSlash(_)
AfterLastSlash(p) ==
  IF \E i \in 1..Len(p) : p[i] = "/"
    THEN AfterLastSlash(SliceFrom(p, CHOOSE i \in 1..Len(p) : p[i] = "/"))
    ELSE p

Basename(p) == AfterLastSlash(WithoutTrailingSlashes(p))

\* Array.prototype.includes and some, on an array of strings.
Includes(arr, s) == \E i \in 1..Len(arr) : arr[i] = s

\* import { CLAUDE_BIN } from "./claude.js"
CLAUDE_BIN == Str_claude

\* import { DEFAULT_IDLE_MINUTES, DEFAULT_RESET_TRIGGER } from "../config/sessions.js"
DEFAULT_IDLE_MINUTES == 60
DEFAULT_RESET_TRIGGER == Str_new

\* const timeoutSeconds = Math.max(reply?.timeoutSeconds ?? 600, 1) is the
\* limit of the command runner and has no part in what follows.

\* applyTemplate(str, ctx): each {{Key}} is replaced by the value of the
\* key in the context, and by nothing when the value is undefined.
TemplateKeys ==
  {Key_Body, Key_BodyStripped, Key_From, Key_SessionId, Key_IsNewSession}

Placeholder(key) == <<"{", "{">> \o key \o <<"}", "}">>

OrEmpty(opt) == IF opt = <<>> THEN <<>> ELSE opt[1]

CtxValue(ctx, key) ==
  IF key = Key_Body THEN OrEmpty(ctx.Body)
  ELSE IF key = Key_BodyStripped THEN OrEmpty(ctx.BodyStripped)
  ELSE IF key = Key_From THEN OrEmpty(ctx.From)
  ELSE IF key = Key_SessionId THEN OrEmpty(ctx.SessionId)
  ELSE ctx.IsNewSession

RECURSIVE applyTemplate(_, _)
applyTemplate(str, ctx) ==
  IF str = <<>> THEN <<>>
  ELSE IF \E k \in TemplateKeys : StartsWith(str, Placeholder(k))
    THEN LET k == CHOOSE key \in TemplateKeys : StartsWith(str, Placeholder(key))
         IN CtxValue(ctx, k)
              \o applyTemplate(SliceFrom(str, Len(Placeholder(k))), ctx)
  ELSE <<Head(str)>> \o applyTemplate(Tail(str), ctx)

\* deriveSessionKey(scope, ctx): one key for all senders when the scope
\* is global, the sender's own key otherwise.
deriveSessionKey(scope, ctx) ==
  IF scope = "global" THEN Str_global ELSE OrEmpty(ctx.From)

\* An optional string is truthy when it is given and not empty.
Truthy(opt) == opt # <<>> /\ opt[1] # <<>>

\* a ?? b on optional values.
Coalesce(a, b) == IF a # <<>> THEN a ELSE b

\* [...arr.slice(0, idx), ...parts, ...arr.slice(idx)]
InsertAt(arr, idx, parts) ==
  SubSeq(arr, 1, idx) \o parts \o SubSeq(arr, idx + 1, Len(arr))

\* const resetTriggers = sessionCfg?.resetTriggers?.length
\*   ? sessionCfg.resetTriggers : [DEFAULT_RESET_TRIGGER]
resetTriggers(sessionCfg) ==
  IF Len(sessionCfg.resetTriggers) > 0
    THEN sessionCfg.resetTriggers
    ELSE <<DEFAULT_RESET_TRIGGER>>

\* const idleMinutes = Math.max(sessionCfg?.idleMinutes ?? DEFAULT_IDLE_MINUTES, 1)
idleMinutes(sessionCfg) ==
  LET configured ==
        IF sessionCfg.idleMinutes = <<>>
          THEN DEFAULT_IDLE_MINUTES
          ELSE sessionCfg.idleMinutes[1]
  IN IF configured > 1 THEN configured ELSE 1

\* const sessionScope = sessionCfg?.scope ?? "per-sender"
sessionScope(sessionCfg) ==
  IF sessionCfg.scope = "absent" THEN "per-sender" ELSE sessionCfg.scope

\* for (const trigger of resetTriggers) { ... }: the first trigger that
\* the trimmed body equals, or starts with followed by a space, makes the
\* session new and strips the body; an empty trigger is passed over.
RECURSIVE TriggerScan(_, _)
TriggerScan(triggers, trimmedBody) ==
  IF triggers = <<>> THEN [isNewSession |-> FALSE, bodyStripped |-> <<>>]
  ELSE
    LET trigger == Head(triggers)
    IN IF trigger = <<>> THEN TriggerScan(Tail(triggers), trimmedBody)
       ELSE IF trimmedBody = trigger
         THEN [isNewSession |-> TRUE, bodyStripped |-> <<Str_empty>>]
       ELSE IF StartsWith(trimmedBody, trigger \o <<" ">>)
         THEN [isNewSession |-> TRUE,
               bodyStripped |->
                 <<TrimStart(SliceFrom(trimmedBody, Len(trigger)))>>]
       ELSE TriggerScan(Tail(triggers), trimmedBody)

\* crypto.randomUUID(): a string that was not returned before.
randomUUID(n) == <<"u", "u", "i", "d", "-">> \o FormatNat(n)

\* const freshEntry = entry && Date.now() - entry.updatedAt <= idleMs
\* with the fresh test turned around.
FreshEntryAfterIdle(store, sessionKey, now, idleMs) ==
  /\ sessionKey \in DOMAIN store
  /\ now - store[sessionKey].updatedAt >= idleMs

FreshEntry(store, sessionKey, now, idleMs) ==
  /\ sessionKey \in DOMAIN store
  /\ now - store[sessionKey].updatedAt <= idleMs

\* if (sessionCfg) { ... } up to the call of saveSessionStore: the locals
\* it sets and the store object it passes on.  The store was read by
\* loadSessionStore; uuid is what crypto.randomUUID() returns if called.
\* nows holds what the reads of Date.now() return, in order: the read of
\* freshEntry, made when the store has an entry for the key, and the
\* read of updatedAt.
SessionHandling(sessionCfg, ctx, store, nows, uuid) ==
  LET trimmedBody == Trim(OrEmpty(ctx.Body))
      scan == TriggerScan(resetTriggers(sessionCfg), trimmedBody)
      sessionKey == deriveSessionKey(sessionScope(sessionCfg), ctx)
      idleMs == idleMinutes(sessionCfg) * 60000
      hasEntry == sessionKey \in DOMAIN store
      freshEntry == FreshEntry(store, sessionKey, nows[1], idleMs)
      updatedAt == IF hasEntry THEN nows[2] ELSE nows[1]
      reuse == ~scan.isNewSession /\ freshEntry
      sessionId == IF reuse THEN store[sessionKey].sessionId ELSE uuid
  IN [sessionKey |-> <<sessionKey>>,
      sessionId |-> <<sessionId>>,
      isNewSession |-> ~reuse,
      bodyStripped |-> scan.bodyStripped,
      updatedAt |-> updatedAt,
      store |-> (sessionKey :> [sessionId |-> sessionId,
                                updatedAt |-> updatedAt])
                  @@ store]

\* const sessionCtx = { ...ctx, BodyStripped, SessionId, IsNewSession }
sessionCtx(call) ==
  [Body |-> call.ctx.Body,
   From |-> call.ctx.From,
   BodyStripped |-> Coalesce(call.bodyStripped, call.ctx.Body),
   SessionId |-> call.sessionId,
   IsNewSession |-> IF call.isNewSession THEN Str_true ELSE Str_false]

\* const bodyPrefix = reply?.bodyPrefix ? applyTemplate(...) : ""
bodyPrefix(reply, sCtx) ==
  IF reply # <<>> /\ reply[1].bodyPrefix # <<>>
    THEN applyTemplate(reply[1].bodyPrefix, sCtx)
    ELSE <<>>

\* const prefixedBody = bodyPrefix ? `${bodyPrefix}${...}` : (...)
prefixedBody(reply, sCtx) ==
  IF bodyPrefix(reply, sCtx) # <<>>
    THEN <<bodyPrefix(reply, sCtx)
             \o OrEmpty(Coalesce(sCtx.BodyStripped, sCtx.Body))>>
    ELSE Coalesce(sCtx.BodyStripped, sCtx.Body)

\* const templatingCtx = { ...sessionCtx, Body: prefixedBody, BodyStripped: prefixedBody }
templatingCtx(reply, call) ==
  [sessionCtx(call) EXCEPT
     !.Body = prefixedBody(reply, sessionCtx(call)),
     !.BodyStripped = prefixedBody(reply, sessionCtx(call))]

\* const from = (ctx.From ?? "").replace(/^whatsapp:/, "")
StripWhatsapp(from) ==
  IF StartsWith(from, Str_whatsapp_colon)
    THEN SliceFrom(from, Len(Str_whatsapp_colon))
    ELSE from

\* if (Array.isArray(allowFrom) && allowFrom.length > 0) {
\*   if (!allowFrom.includes(from)) return undefined }
Allowed(cfg, ctx) ==
  \/ Len(cfg.allowFrom) = 0
  \/ Includes(cfg.allowFrom, StripWhatsapp(OrEmpty(ctx.From)))

\* if (templatePrefix && argv.length > 0)
\*   argv = [argv[0], templatePrefix, ...argv.slice(1)]
WithTemplatePrefix(reply, argv, tCtx) ==
  LET templatePrefix ==
        IF reply.template # <<>> THEN applyTemplate(reply.template, tCtx)
        ELSE <<>>
  IN IF templatePrefix # <<>> /\ Len(argv) > 0
       THEN <<argv[1], templatePrefix>> \o Tail(argv)
       ELSE argv

hasOutputFormat(argv) ==
  \E i \in 1..Len(argv) :
    argv[i] = Str_output_format \/ StartsWith(argv[i], Str_output_format_eq)

hasPrintFlag(argv) ==
  \E i \in 1..Len(argv) : argv[i] = Str_dash_p \/ argv[i] = Str_print

\* Math.max(argv.length - 1, 0)
BeforeLast(argv) == IF Len(argv) - 1 > 0 THEN Len(argv) - 1 ELSE 0

\* The flag goes in whether it is there or not.
WithOutputFormatAlways(reply, argv) ==
  InsertAt(argv, BeforeLast(argv),
           <<Str_output_format, reply.claudeOutputFormat[1]>>)

\* if (!hasOutputFormat) argv = [...argv.slice(0, insertBeforeBody),
\*   "--output-format", reply.claudeOutputFormat, ...argv.slice(insertBeforeBody)]
WithOutputFormat(reply, argv) ==
  IF ~hasOutputFormat(argv)
    THEN InsertAt(argv, BeforeLast(argv),
                  <<Str_output_format, reply.claudeOutputFormat[1]>>)
    ELSE argv

\* if (!hasPrintFlag) argv = [...argv.slice(0, insertIdx), "-p", ...argv.slice(insertIdx)]
WithPrintFlag(argv) ==
  IF ~hasPrintFlag(argv)
    THEN InsertAt(argv, BeforeLast(argv), <<Str_dash_p>>)
    ELSE argv

\* if (reply.claudeOutputFormat && argv.length > 0 &&
\*     path.basename(argv[0]) === CLAUDE_BIN) { ... }
WithClaudeFlags(reply, argv) ==
  IF /\ Truthy(reply.claudeOutputFormat)
     /\ Len(argv) > 0
     /\ Basename(argv[1]) = CLAUDE_BIN
    THEN WithPrintFlag(WithOutputFormat(reply, argv))
    ELSE argv

\* The arguments of the session before they are templated.
sessionArgList(sessionCfg, isNewSession) ==
  IF isNewSession
    THEN IF sessionCfg.sessionArgNew # <<>>
           THEN sessionCfg.sessionArgNew[1]
           ELSE <<Str_session_id, Str_SessionId_template>>
    ELSE IF sessionCfg.sessionArgResume # <<>>
           THEN sessionCfg.sessionArgResume[1]
           ELSE <<Str_resume, Str_SessionId_template>>

\* if (reply.session) { ... argv = [...argv.slice(0, insertAt),
\*   ...sessionArgList, ...argv.slice(insertAt)] }
WithSessionArgs(reply, argv, isNewSession, tCtx) ==
  IF reply.session = <<>> THEN argv
  ELSE
    LET raw == sessionArgList(reply.session[1], isNewSession)
        args == [i \in 1..Len(raw) |-> applyTemplate(raw[i], tCtx)]
        insertBeforeBody ==
          IF reply.session[1].sessionArgBeforeBody = "absent" THEN TRUE
          ELSE reply.session[1].sessionArgBeforeBody = "true"
        insertAt ==
          IF insertBeforeBody /\ Len(argv) > 1 THEN Len(argv) - 1
          ELSE Len(argv)
    IN IF Len(args) > 0 THEN InsertAt(argv, insertAt, args) ELSE argv

\* let argv = reply.command.map((part) => applyTemplate(part, templatingCtx))
templatedCommand(reply, tCtx) ==
  [i \in 1..Len(reply.command) |-> applyTemplate(reply.command[i], tCtx)]

\* const finalArgv = argv
finalArgv(reply, tCtx, isNewSession) ==
  WithSessionArgs(
    reply,
    WithClaudeFlags(
      reply, WithTemplatePrefix(reply, templatedCommand(reply, tCtx), tCtx)),
    isNewSession, tCtx)

\* What the call returns for the result of the command runner.  The text
\* parseClaudeJson finds in the output comes with the result (<<>> when
\* it finds none); if (parsed?.text) takes it when it is not empty.
ReplyOfResult(reply, argv, result) ==
  LET rawStdout == Trim(result.stdout)
      isClaudeInvocation == Len(argv) > 0 /\ Basename(argv[1]) = CLAUDE_BIN
      trimmed ==
        IF /\ rawStdout # <<>>
           /\ (reply.claudeOutputFormat = <<Str_json>> \/ isClaudeInvocation)
           /\ Truthy(result.claudeText)
          THEN Trim(result.claudeText[1])
          ELSE rawStdout
  IN IF result.code # 0 THEN <<>>
     ELSE IF result.killed /\ ~result.signal THEN <<>>
     ELSE IF trimmed # <<>> THEN <<trimmed>>
     ELSE <<>>

\* cfg.inbound.reply.session; every field is optional.
SessionConfig(scope, triggers, idle, argNew, argResume, beforeBody) ==
  <<[scope |-> scope, resetTriggers |-> triggers, idleMinutes |-> idle,
     sessionArgNew |-> argNew, sessionArgResume |-> argResume,
     sessionArgBeforeBody |-> beforeBody]>>

\* cfg.inbound: allowFrom and reply.
InboundConfig(allowFrom, mode, text, command, template, prefix, format, session) ==
  [allowFrom |-> allowFrom,
   reply |-> <<[mode |-> mode, text |-> text, command |-> command,
                template |-> template, bodyPrefix |-> prefix,
                claudeOutputFormat |-> format, session |-> session]>>]

\* The configurations: the ones of the tests and their neighbours.
\* A session with reset triggers, an idle window below the minimum and
\* its own arguments, for a Claude command with a template.
Cfg_session ==
  InboundConfig(<<>>, "command", <<>>, <<Str_claude, Str_Body_template>>,
                Str_tmpl, <<>>, <<Str_text>>,
                SessionConfig("per-sender", <<Str_empty, Str_new>>, <<0>>,
                              <<<<Str_sid, Str_SessionId_template>>>>,
                              <<>>, "absent"))

\* A text reply behind an allowlist, with a session of defaults.
Cfg_text ==
  InboundConfig(<<Str_plus_1>>, "text", Str_Re_Body, <<>>, <<>>, Str_pfx, <<>>,
                SessionConfig("absent", <<>>, <<>>, <<>>, <<>>, "absent"))

\* A Claude command that has its flags, without a session.
Cfg_flags ==
  InboundConfig(<<>>, "command", <<>>,
                <<Str_bin_claude, Str_print, Str_output_format_json,
                  Str_Body_template>>,
                <<>>, Str_pfx, <<Str_json>>, <<>>)

\* No reply is configured.
Cfg_none == [allowFrom |-> <<>>, reply |-> <<>>]

\* What the command runner's promise is fulfilled with; the text that
\* parseClaudeJson finds in the output comes with it.
Result_claude ==
  [stdout |-> Str_ok_nl, code |-> 0, killed |-> FALSE, signal |-> FALSE,
   claudeText |-> <<Str_answer>>]
Result_failed ==
  [stdout |-> Str_ok, code |-> 1, killed |-> FALSE, signal |-> FALSE,
   claudeText |-> <<>>]

\* The arguments of a call: ctx (Body, From), whether opts.onReplyStart
\* is given, configOverride, and what commandRunner does: its promise is
\* fulfilled with a result, or rejected (<<>>).
ReplyCallPool ==
  {[ctx |-> [Body |-> <<Str_hi>>, From |-> <<Str_plus_2>>],
    opts |-> "onReplyStart", cfg |-> Cfg_session,
    commandRunner |-> <<Result_claude>>],
   [ctx |-> [Body |-> <<Str_new_hi>>, From |-> <<Str_plus_2>>],
    opts |-> "absent", cfg |-> Cfg_session, commandRunner |-> <<>>],
   [ctx |-> [Body |-> <<Str_empty>>, From |-> <<Str_plus_2>>],
    opts |-> "absent", cfg |-> Cfg_session,
    commandRunner |-> <<Result_claude>>],
   [ctx |-> [Body |-> <<Str_newx>>, From |-> <<Str_whatsapp_plus_1>>],
    opts |-> "onReplyStart", cfg |-> Cfg_text,
    commandRunner |-> <<Result_claude>>],
   [ctx |-> [Body |-> <<Str_sp_new_nl>>, From |-> <<Str_plus_2>>],
    opts |-> "onReplyStart", cfg |-> Cfg_text,
    commandRunner |-> <<Result_claude>>],
   [ctx |-> [Body |-> <<Str_hi>>, From |-> <<Str_plus_2>>],
    opts |-> "onReplyStart", cfg |-> Cfg_flags,
    commandRunner |-> <<Result_failed>>],
   [ctx |-> [Body |-> <<Str_hi>>, From |-> <<Str_plus_2>>],
    opts |-> "onReplyStart", cfg |-> Cfg_none,
    commandRunner |-> <<Result_claude>>]}

\* The values of Date.now() at the calls and at the continuations of
\* their awaits: the start, the end of an idle window of one minute and
\* the millisecond after it.
ReplyClockPool == {0, 60000, 60001}

\* The locals of a call that has just been made.
NewCall(ctx, opts, cfg, commandRunner) ==
  [ctx |-> ctx, opts |-> opts, cfg |-> cfg, commandRunner |-> commandRunner,
   pc |-> "called", started |-> FALSE,
   onReplyStartCalls |-> 0, sessionKey |-> <<>>, sessionId |-> <<>>,
   isNewSession |-> FALSE, bodyStripped |-> <<>>, store |-> <<>>,
   argv |-> <<>>, command |-> 0, reply |-> <<>>]

\* The same with the test of started turned around.
onReplyStartGuardInverted(call) ==
  IF ~call.started THEN call
  ELSE [call EXCEPT !.started = TRUE,
                    !.onReplyStartCalls =
                      IF call.opts = "absent" THEN @ ELSE @ + 1]

\* let started = false
\* const onReplyStart = async () => {
\*   if (started) return; started = true; await opts?.onReplyStart?.() }
onReplyStart(call) ==
  IF call.started THEN call
  ELSE [call EXCEPT !.started = TRUE,
                    !.onReplyStartCalls =
                      IF call.opts = "absent" THEN @ ELSE @ + 1]

\* The same with the test of the mode turned around.
IsTextReplyModeInverted(reply) == reply.mode # "text" /\ reply.text # <<>>

\* if (reply.mode === "text" && reply.text)
IsTextReply(reply) == reply.mode = "text" /\ reply.text # <<>>

\* if (reply.mode === "command" && reply.command?.length)
IsCommandReply(reply) == reply.mode = "command" /\ Len(reply.command) > 0

\* From the end of the session handling to the first await that follows
\* or to the return: the allowlist, then the reply mode.
AfterSession(cfg, call) ==
  IF ~Allowed(cfg, call.ctx) THEN [call EXCEPT !.pc = "returned"]
  ELSE IF cfg.reply = <<>> THEN [call EXCEPT !.pc = "returned"]
  ELSE IF IsTextReply(cfg.reply[1])
    THEN [onReplyStart(call) EXCEPT !.pc = "onReplyStart"]
  ELSE IF IsCommandReply(cfg.reply[1])
    THEN [onReplyStart(call) EXCEPT !.pc = "onReplyStart"]
  ELSE [call EXCEPT !.pc = "returned"]

ReplyInit ==
  /\ entry = "getReplyFromConfig"
  /\ pc = "idle"
  /\ results = <<>>
  /\ config = [enabled |-> "absent", halfLifeDays |-> Absent]
  /\ items = <<>>
  /\ setA = {} /\ setB = {}
  /\ Idle
  /\ ParseIdle
  /\ QueueIdle
  /\ BatchIdle
  /\ sessionStore = <<>>
  /\ replyCalls = <<>>
  /\ uuids = 0

\* getReplyFromConfig(ctx, opts, cfg, commandRunner) from its start to its
\* first await or to its return, at a time that is not before the last
\* call's.  With a session configured the first await is the one of
\* saveSessionStore: the store was loaded, the session chosen and the
\* entry of the key set in the loaded object.
GetReplyFromConfig ==
  /\ Len(replyCalls) < MaxReplyCalls
  /\ \E now \in ReplyClockPool, input \in ReplyCallPool :
       LET call == NewCall(input.ctx, input.opts, input.cfg, input.commandRunner)
           sessionCfg ==
             IF call.cfg.reply = <<>> THEN <<>> ELSE call.cfg.reply[1].session
       IN /\ now >= clock
          /\ IF sessionCfg # <<>>
               THEN \E nows \in ClockReads(now, ReplyClockPool, 2) :
                      LET s == SessionHandling(sessionCfg[1], call.ctx,
                                               sessionStore, nows,
                                               randomUUID(uuids + 1))
                      IN /\ replyCalls' =
                              Append(replyCalls,
                                     [call EXCEPT !.pc = "saveSessionStore",
                                                  !.sessionKey = s.sessionKey,
                                                  !.sessionId = s.sessionId,
                                                  !.isNewSession = s.isNewSession,
                                                  !.bodyStripped = s.bodyStripped,
                                                  !.store = s.store])
                         /\ uuids' = IF s.isNewSession THEN uuids + 1 ELSE uuids
                         /\ clock' = s.updatedAt
               ELSE /\ replyCalls' =
                         Append(replyCalls, AfterSession(call.cfg, call))
                    /\ uuids' = uuids
                    /\ clock' = now
  /\ UNCHANGED <<sessionStore, commands, queue, draining, awaited,
                 taskState, promise, onWaitCalls, drainFailed, searchVars>>

\* await saveSessionStore(storePath, store) is over: the file holds the
\* object the call passed, and the call goes on to its next await.
SaveSessionStoreSettles ==
  /\ \E c \in DOMAIN replyCalls :
       /\ replyCalls[c].pc = "saveSessionStore"
       /\ sessionStore' = replyCalls[c].store
       /\ replyCalls' =
            [replyCalls EXCEPT ![c] = AfterSession(replyCalls[c].cfg, replyCalls[c])]
  /\ UNCHANGED <<uuids, queueVars, searchVars>>

\* await onReplyStart() is over.  A text reply is returned; a command
\* reply builds its argv and puts the command on the queue, and the call
\* waits for the promise of enqueueCommand.  The continuation runs at a
\* time now that is not before the last read of the clock: time passes
\* during the await, and Date.now() is read when enqueueCommand runs.
OnReplyStartSettles ==
  /\ \E c \in DOMAIN replyCalls :
       LET call == replyCalls[c]
           reply == call.cfg.reply[1]
           tCtx == templatingCtx(call.cfg.reply, call)
       IN /\ call.pc = "onReplyStart"
          /\ IF IsTextReply(reply)
               THEN /\ replyCalls' =
                         [replyCalls EXCEPT
                            ![c] = [call EXCEPT
                                      !.pc = "returned",
                                      !.reply = <<applyTemplate(reply.text, tCtx)>>]]
                    /\ UNCHANGED queueVars
               ELSE \E now \in ReplyClockPool \cup {clock} :
                      /\ now >= clock
                      /\ \E nows \in ClockReads(now, ReplyClockPool,
                                                Len(queue) + 2) :
                           /\ replyCalls' =
                                [replyCalls EXCEPT
                                   ![c] = [call EXCEPT
                                             !.pc = "enqueueCommand",
                                             !.argv =
                                               finalArgv(reply, tCtx,
                                                         call.isNewSession),
                                             !.command = Len(commands) + 1]]
                           /\ QueueBecomes(
                                enqueueCommand(
                                  QueueState,
                                  [task |-> IF call.commandRunner = <<>>
                                              THEN "rejects" ELSE "returns",
                                   warnAfterMs |-> <<>>, onWait |-> "returns"],
                                  nows))
  /\ UNCHANGED <<sessionStore, uuids, searchVars>>

\* The promise of enqueueCommand has settled: the call returns what it
\* makes of the result, or undefined after a rejection.
ReplyReturns ==
  /\ \E c \in DOMAIN replyCalls :
       LET call == replyCalls[c]
       IN /\ call.pc = "enqueueCommand"
          /\ promise[call.command].state # "pending"
          /\ replyCalls' =
               [replyCalls EXCEPT
                  ![c] = [call EXCEPT
                            !.pc = "returned",
                            !.reply =
                              IF promise[call.command].state = "fulfilled"
                                THEN ReplyOfResult(call.cfg.reply[1], call.argv,
                                                   call.commandRunner[1])
                                ELSE <<>>]]
  /\ UNCHANGED <<sessionStore, uuids, queueVars, searchVars>>

\* drainQueue continues after its await, at a time that is not before
\* the last read of the clock.
ReplyDrainResume == DrainResumeAt(ReplyClockPool \cup {clock}, ReplyClockPool)

ReplyNext ==
  \/ GetReplyFromConfig
  \/ SaveSessionStoreSettles
  \/ OnReplyStartSettles
  \/ ReplyReturns
  \/ TaskSettles
  \/ ReplyDrainResume

ReplySpec == ReplyInit /\ [][ReplyNext]_vars

(***************************************************************************)
(* mmrRerank as a function of its arguments: the greedy loop run to its    *)
(* end.                                                                    *)
(***************************************************************************)
RECURSIVE GreedyLoop(_, _, _, _, _, _, _)
GreedyLoop(its, sel, rem, cache, lo, hi, lambda) ==
  IF rem = {} THEN sel
  ELSE LET best == ScanRemaining(its, InOrder(rem), 1, sel, cache, lo, hi, lambda,
                                 [bestItem |-> 0, bestMMRScore |-> NegInfinity])
       IN IF best.bestItem = 0 THEN sel
          ELSE GreedyLoop(its, Append(sel, best.bestItem), rem \ {best.bestItem},
                          cache, lo, hi, lambda)

RerankOf(its, cfg) ==
  IF ~ConfigEnabled(cfg) \/ Len(its) <= 1 THEN [i \in DOMAIN its |-> i]
  ELSE IF NumEq(ClampLambda(ConfigLambda(cfg)), One) THEN toSortedByScore(its)
  ELSE GreedyLoop(its, <<>>, SetOfItems(its), BuildTokenCache(its),
                  MinOf(ItemScores(its), 1), MaxOf(ItemScores(its), 1),
                  ClampLambda(ConfigLambda(cfg)))

(***************************************************************************)
(* Reference definitions the claims are stated with.                       *)
(***************************************************************************)
NumGeq(a, b) == NumGt(a, b) \/ NumEq(a, b)

IsPermutationOf(seq, n) ==
  /\ Len(seq) = n
  /\ {seq[i] : i \in DOMAIN seq} = 1..n

RefJaccard(A, B) ==
  IF A = {} /\ B = {} THEN One
  ELSE IF A = {} \/ B = {} THEN Zero
  ELSE Rat(Cardinality(A \cap B), Cardinality(A \cup B))

\* The lowest and the highest score of the items.
RefLowest ==
  items[CHOOSE j \in DOMAIN items :
          \A m \in DOMAIN items : NumGeq(items[m].score, items[j].score)].score

RefHighest ==
  items[CHOOSE j \in DOMAIN items :
          \A m \in DOMAIN items : NumGeq(items[j].score, items[m].score)].score

RefRelevance(i) ==
  IF NumEq(RefLowest, RefHighest) THEN One
  ELSE NumDiv(NumSub(items[i].score, RefLowest), NumSub(RefHighest, RefLowest))

RefMaxSimilarity(i, chosen) ==
  IF chosen = {} THEN Zero
  ELSE LET sims == {RefJaccard(tokenize(items[i].content), tokenize(items[j].content)) : j \in chosen}
       IN CHOOSE s \in sims : \A t \in sims : NumGeq(s, t)

\* lambda * relevance - (1 - lambda) * max_similarity, as the number the
\* code's doubles give.
RefMMR(i, chosen, lambda) ==
  MMRScoreOf(NumSub(NumMul(lambda, RefRelevance(i)),
                    NumMul(NumSub(One, lambda), RefMaxSimilarity(i, chosen))),
             items[i].score, RefLowest, RefHighest, RefRelevance(i),
             RefMaxSimilarity(i, chosen), lambda)

MMRScoreGeq(a, b) == MMRScoreGt(a, b) \/ MMRScoreEq(a, b)

RefClamp(lambda) ==
  IF NumGt(Zero, lambda) THEN Zero ELSE IF NumGt(lambda, One) THEN One ELSE lambda

InUnitInterval(lambda) == IsNum(lambda) /\ NumGeq(lambda, Zero) /\ NumGeq(One, lambda)

\* The last round of the greedy loop: the item it picked, the items
\* selected before it and the items remaining before it.
LoopRan == pc \in {"loop", "mmrReturned", "done"} /\ Len(selected) >= 1
LastPick == selected[Len(selected)]
SelectedBefore == {selected[j] : j \in 1..(Len(selected) - 1)}
RemainingBefore == remaining \cup {LastPick}

\* The items array holds no object twice.
DistinctObjects == SetOfItems(items) = DOMAIN items

\* Every score of the items is a finite number.
FiniteScores == \A i \in DOMAIN items : IsNum(items[i].score)

IsEnabled == ConfigEnabled(config)
Lambda == ConfigLambda(config)
RerankReturned == pc \in {"mmrReturned", "done"} /\ entry # "jaccardSimilarity"

(***************************************************************************)
(* Claims.                                                                 *)
(***************************************************************************)

\* C1 (as stated): for every input list and every configuration, also a
\* lambda that is out of range or not a number, the output of mmrRerank
\* holds every input item exactly once, and the greedy loop never takes
\* its safety exit.
C1_OutputIsPermutation ==
  /\ ~safetyExit
  /\ RerankReturned => IsPermutationOf(reranked, Len(items))

\* The spec's end-to-end example: A, B, C with lambda 0.5.
ExampleItems ==
  <<[id |-> <<"A">>, score |-> Rat(9, 10), content |-> Str_cats_and_dogs,
     ref |-> 1],
    [id |-> <<"B">>, score |-> Rat(17, 20), content |-> Str_cats_and_dogs_too,
     ref |-> 2],
    [id |-> <<"C">>, score |-> Rat(1, 2), content |-> Str_quantum_physics,
     ref |-> 3]>>

ExampleCall ==
  /\ entry = "mmrRerank"
  /\ items = ExampleItems
  /\ config = [enabled |-> "true", lambda |-> Rat(1, 2)]

\* C2 (as stated): with lambda 0.5 the example's results A, B, C are
\* returned in the order A, C, B.
C2_ExampleOrderACB ==
  ExampleCall /\ pc = "mmrReturned" => reranked = <<1, 3, 2>>

\* C2 (amended): with lambda 0.5 the example's results are returned in the
\* order A, B, C: after A is selected, B's MMR score (normalized relevance
\* 7/8, similarity 3/4 to A) is 1/16 and C's (normalized relevance 0,
\* similarity 0) is 0, so the overlap with A does not place B after C.
C2_ExampleOrderABC ==
  /\ ExampleCall /\ pc = "mmrReturned" => reranked = <<1, 2, 3>>
  /\ ExampleCall /\ pc = "loop" /\ selected = <<1>> =>
       /\ NumEq(CandidateMMR(items, 2, selected, tokenCache, minScore, maxScore, clampedLambda),
                Rat(1, 16))
       /\ NumEq(CandidateMMR(items, 3, selected, tokenCache, minScore, maxScore, clampedLambda),
                Zero)

C2_Witness ==
  ExampleCall /\ pc = "mmrReturned" /\ Len(reranked) = 3 /\ reranked[2] = 2

\* C3: in every round of the greedy loop (enabled, 0 <= lambda < 1, at
\* least 2 items) the item moved from remaining to selected has the largest
\* lambda * normalized_relevance - (1 - lambda) * max_similarity among the
\* items that remained.
C3_PickMaximizesMMR ==
  LoopRan /\ InUnitInterval(Lambda) /\ ~NumEq(Lambda, One) =>
    \A c \in RemainingBefore :
      MMRScoreGeq(RefMMR(LastPick, SelectedBefore, Lambda),
                  RefMMR(c, SelectedBefore, Lambda))

\* A round in which the most relevant remaining item is not the one picked,
\* because of its similarity to the items already selected.
C3_Witness ==
  /\ LoopRan /\ InUnitInterval(Lambda) /\ ~NumEq(Lambda, One)
  /\ SelectedBefore # {}
  /\ \E c \in remaining :
       /\ NumGt(RefRelevance(c), RefRelevance(LastPick))
       /\ MMRScoreGt(RefMMR(LastPick, SelectedBefore, Lambda),
                     RefMMR(c, SelectedBefore, Lambda))

\* C4: in every round of the greedy loop, among the remaining candidates
\* that share the maximal MMR score the one selected has the highest
\* original score, whatever their order in the input.
C4_TieBreakByScore ==
  LoopRan /\ IsNum(Lambda) =>
    \A c \in RemainingBefore :
      MMRScoreEq(RefMMR(c, SelectedBefore, RefClamp(Lambda)),
                 RefMMR(LastPick, SelectedBefore, RefClamp(Lambda)))
        => NumGeq(items[LastPick].score, items[c].score)

\* A round in which an earlier item of the input tied on MMR with the item
\* picked and had the lower original score.
C4_Witness ==
  /\ LoopRan /\ IsNum(Lambda)
  /\ \E c \in remaining :
       /\ c < LastPick
       /\ MMRScoreEq(RefMMR(c, SelectedBefore, RefClamp(Lambda)),
                     RefMMR(LastPick, SelectedBefore, RefClamp(Lambda)))
       /\ NumGt(items[LastPick].score, items[c].score)

\* C5 (as stated): with diversity enabled and lambda = 1 the output of
\* mmrRerank is the input sorted by descending score (items of equal score
\* in input order), whatever the contents, for every input.
C5_LambdaOneSortsByScore ==
  RerankReturned /\ IsEnabled /\ IsNum(Lambda) /\ NumEq(Lambda, One) =>
    /\ IsPermutationOf(reranked, Len(items))
    /\ \A i, j \in DOMAIN reranked :
         i < j =>
           \/ NumGt(items[reranked[i]].score, items[reranked[j]].score)
           \/ /\ NumEq(items[reranked[i]].score, items[reranked[j]].score)
              /\ reranked[i] < reranked[j]

\* What holds of the code: the output is sorted when every score is a
\* finite number.
LambdaOneSortsFiniteScores ==
  FiniteScores => C5_LambdaOneSortsByScore

\* lambda = 1 on an input that is not sorted and whose first two items
\* have the same tokens.
LambdaOneSortedFiniteScores ==
  /\ RerankReturned /\ IsEnabled /\ IsNum(Lambda) /\ NumEq(Lambda, One)
  /\ Len(items) >= 2 /\ FiniteScores
  /\ NumGt(items[2].score, items[1].score)
  /\ tokenize(items[1].content) = tokenize(items[2].content)
  /\ reranked[1] # 1

\* lambda = 1 on the scores 0.5, NaN, 0.9: the comparator returns NaN for
\* the pairs with the second item, the sort takes the three for a run in
\* order and returns them as they came, 0.9 behind 0.5.
LambdaOneLeavesNaNScoresUnsorted ==
  /\ entry = "mmrRerank" /\ pc = "mmrReturned"
  /\ IsEnabled /\ IsNum(Lambda) /\ NumEq(Lambda, One)
  /\ Len(items) = 3 /\ ~IsOrdered(items[2].score)
  /\ NumGt(items[3].score, items[1].score)
  /\ reranked = <<1, 2, 3>>

\* A sample of the lambdas of [0, 1].
LambdaGrid == {Rat(0, 1), Rat(1, 2), Rat(7, 10), Rat(1, 1)}

\* C6 (as stated): lambda < 0 gives the output of lambda = 0, lambda > 1
\* gives the output of lambda = 1, and a lambda that is not a number gives
\* the output of some lambda of [0, 1], without the safety exit.
C6_LambdaDegradesIntoRange ==
  RerankReturned /\ IsEnabled =>
    /\ IsNum(Lambda) /\ NumGt(Zero, Lambda) =>
         reranked = RerankOf(items, [enabled |-> "true", lambda |-> Zero])
    /\ IsNum(Lambda) /\ NumGt(Lambda, One) =>
         reranked = RerankOf(items, [enabled |-> "true", lambda |-> One])
    /\ ~IsNum(Lambda) =>
         \E l \in LambdaGrid : reranked = RerankOf(items, [enabled |-> "true", lambda |-> l])

\* C7 (as stated): for every enabled rerank of at least 2 items and every
\* lambda in [0, 1], lambda = 0 included, the first item of the output has
\* the maximum original score of the batch.
C7_FirstHasMaxScore ==
  RerankReturned /\ IsEnabled /\ Len(items) >= 2 /\ InUnitInterval(Lambda) =>
    /\ Len(reranked) >= 1
    /\ \A i \in DOMAIN items : NumGeq(items[reranked[1]].score, items[i].score)

\* What holds of the code: the first item of the output has the maximum
\* score when every score is a finite number.
FirstHasMaxOfFiniteScores ==
  FiniteScores => C7_FirstHasMaxScore

\* lambda = 0 on an input whose first item does not have the maximum score.
FirstHasMaxAtLambdaZero ==
  /\ RerankReturned /\ IsEnabled /\ Len(items) >= 2 /\ FiniteScores
  /\ IsNum(Lambda) /\ NumEq(Lambda, Zero)
  /\ Len(reranked) >= 1 /\ reranked[1] # 1
  /\ NumGt(items[reranked[1]].score, items[1].score)

\* lambda = 1 on the scores 0.5, NaN, 0.9: the first item of the output
\* holds 0.5.
FirstIsNotMaxWithNaNScore ==
  /\ LambdaOneLeavesNaNScoresUnsorted
  /\ \E i \in DOMAIN items : NumGt(items[i].score, items[reranked[1]].score)

\* C8: jaccardSimilarity(A, B) is 1 if both sets are empty, 0 if exactly one
\* is, |A \cap B| / |A \cup B| otherwise; it is symmetric, lies in [0, 1],
\* is 1 for equal sets and 0 for disjoint non-empty sets.
C8_JaccardIsReference ==
  entry = "jaccardSimilarity" /\ pc = "done" =>
    /\ IsNum(similarity)
    /\ NumEq(similarity, RefJaccard(setA, setB))
    /\ NumEq(similarity, jaccardSimilarity(setB, setA))
    /\ NumGeq(similarity, Zero) /\ NumGeq(One, similarity)
    /\ setA = setB => NumEq(similarity, One)
    /\ setA # {} /\ setB # {} /\ setA \cap setB = {} => NumEq(similarity, Zero)

\* Two sets of different sizes that overlap without one holding the other.
C8_Witness ==
  /\ entry = "jaccardSimilarity" /\ pc = "done"
  /\ Cardinality(setA) > Cardinality(setB)
  /\ setA \cap setB # {} /\ setB \ setA # {}
  /\ NumGt(similarity, Zero) /\ NumGt(One, similarity)

\* C9 (as stated): applyMMRToHybridResults gives every item a synthetic id
\* distinct from all others in the call and returns each original result
\* exactly once, in the order mmrRerank gave to the synthetic items.
C9_HybridReturnsEachOnce ==
  entry = "applyMMRToHybridResults" =>
    /\ pc # "applyMMRToHybridResults" /\ results # <<>> =>
         \A i, j \in DOMAIN items : i # j => items[i].id # items[j].id
    /\ pc = "done" =>
         /\ IsPermutationOf(output, Len(results))
         /\ output = reranked

\* C10: when the stage is disabled (the default configuration included) or
\* the batch has at most 1 item, mmrRerank and applyMMRToHybridResults
\* return the input's items in the input's order.
C10_DisabledKeepsOrder ==
  /\ entry = "mmrRerank" /\ pc = "mmrReturned" /\ (config.enabled # "true" \/ Len(items) <= 1) =>
       reranked = [i \in DOMAIN items |-> i]
  /\ entry = "applyMMRToHybridResults" /\ pc = "done"
       /\ (config.enabled # "true" \/ Len(results) <= 1) =>
       output = [i \in DOMAIN results |-> i]

\* The default configuration through applyMMRToHybridResults, on results
\* that an enabled rerank would reorder.
C10_Witness ==
  /\ entry = "applyMMRToHybridResults" /\ pc = "done"
  /\ config.enabled = "absent"
  /\ Len(results) >= 2
  /\ NumGt(results[2].score, results[1].score)
  /\ output = [i \in DOMAIN results |-> i]

(***************************************************************************)
(* What holds where C1, C6 and C9 fail: with a lambda that is a number     *)
(* the loop never takes its safety exit and, when the array holds no       *)
(* object twice, the output is a permutation; an out-of-range lambda       *)
(* behaves as the nearest bound, and the adapter returns every result      *)
(* once.                                                                   *)
(***************************************************************************)
NumericLambdaIsPermutation ==
  IsNum(Lambda) =>
    /\ FiniteScores => ~safetyExit
    /\ RerankReturned /\ DistinctObjects /\ FiniteScores =>
         IsPermutationOf(reranked, Len(items))

\* A score that is NaN makes the score range NaN and every MMR score NaN:
\* the first round of the loop finds no item and the output is empty.
NaNScoreTakesSafetyExit ==
  /\ entry = "mmrRerank" /\ pc = "mmrReturned"
  /\ IsEnabled /\ IsNum(Lambda) /\ Len(items) >= 2
  /\ ~FiniteScores
  /\ safetyExit
  /\ reranked = <<>>

\* The loop returns an object the array holds several times once: the
\* output is shorter than the input.
SameObjectReturnedOnce ==
  /\ entry = "mmrRerank" /\ pc = "mmrReturned"
  /\ IsEnabled /\ IsNum(Lambda) /\ ~safetyExit
  /\ ~DistinctObjects
  /\ Len(reranked) < Len(items)
  /\ {reranked[j] : j \in DOMAIN reranked} = SetOfItems(items)

NumericLambdaIsClamped ==
  RerankReturned /\ IsEnabled /\ IsNum(Lambda) =>
    /\ NumGt(Zero, Lambda) =>
         reranked = RerankOf(items, [enabled |-> "true", lambda |-> Zero])
    /\ NumGt(Lambda, One) =>
         reranked = RerankOf(items, [enabled |-> "true", lambda |-> One])

NumericLambdaHybridReturnsEachOnce ==
  IsNum(Lambda) => C9_HybridReturnsEachOnce

SyntheticIdsAreDistinct ==
  entry = "applyMMRToHybridResults" /\ pc # "applyMMRToHybridResults" =>
    \A i, j \in DOMAIN items : i # j => items[i].id # items[j].id

\* The safety exit is taken exactly when the clamped lambda is NaN.
SafetyExitOnlyForNaN == safetyExit <=> (pc \in {"mmrReturned", "done"} /\ clampedLambda.k = "NaN")


(***************************************************************************)
(* Claims about the temporal decay stage and about both stages.            *)
(***************************************************************************)
\* The call has returned to its caller.
CallReturned ==
  \/ entry = "mmrRerank" /\ pc = "mmrReturned"
  \/ entry \in {"applyMMRToHybridResults", "applyTemporalDecayToHybridResults"} /\ pc = "done"

\* C11: every call of applyTemporalDecayToHybridResults, mmrRerank and
\* applyMMRToHybridResults, for every config and every input size (0
\* included), leaves the collection it was given as it was (same items,
\* same order, same scores) and returns a collection that is not the
\* collection it was given.
C11_FreshOutputInputUntouched ==
  [][/\ results' = results
     /\ (entry = "mmrRerank" => items' = items)
     /\ (CallReturned' => ~outputIsInput')]_vars

\* An enabled batch.
DecayEnabled ==
  /\ entry = "applyTemporalDecayToHybridResults"
  /\ MergedDecayConfig(config).enabled = "true"

DecayReturned == DecayEnabled /\ pc = "done"

SameKey(i, j) ==
  results[i].source = results[j].source /\ results[i].path = results[j].path

\* The promise the callback of result i awaits.
PromiseOf(i) == timestampPromiseCache[CacheKey(results[i])]

\* The score result i gets from the timestamp ts.
ScoreFrom(i, ts) ==
  applyTemporalDecayToScore(results[i].score, ageInDaysFromTimestamp(ts, nowMs),
                            MergedDecayConfig(config).halfLifeDays)

\* C12: in one enabled batch at most one timestamp resolution, and so at
\* most one last-modified lookup, is started per (source, identity) key,
\* however many results carry the key and in whatever order the lookups
\* settle; the results with one key all get the outcome of that
\* resolution (all kept as they are, or all decayed by the same
\* multiplier).
C12_OneResolutionPerKey ==
  DecayEnabled =>
    /\ \A i, j \in DOMAIN extractCalls : extractCalls[i] = extractCalls[j] => i = j
    /\ \A i, j \in DOMAIN statCalls : statCalls[i].key = statCalls[j].key => i = j
    /\ \A i \in DOMAIN results : i <= mapIndex =>
         Cardinality({c \in DOMAIN extractCalls :
                        extractCalls[c] = CacheKey(results[i])}) = 1
    /\ pc = "done" =>
         \A i, j \in DOMAIN results : SameKey(i, j) =>
           /\ decayed[i].same = decayed[j].same
           /\ ~decayed[i].same =>
                /\ decayed[i].score = ScoreFrom(i, PromiseOf(i).value)
                /\ decayed[j].score = ScoreFrom(j, PromiseOf(i).value)

\* Two results with one key, one fs.stat, both decayed by its outcome.
C12_Witness ==
  /\ DecayReturned
  /\ Len(results) = 2
  /\ SameKey(1, 2)
  /\ Len(statCalls) = 1
  /\ ~decayed[1].same /\ ~decayed[2].same
  /\ decayed[1].score.x # Zero

\* The last-modified lookup of a promise was made and failed: fs.stat
\* threw (missing or inaccessible file) or gave an mtimeMs that is not
\* finite.
LookupFailed(p) ==
  \/ p.outcome.k = "throws"
  \/ p.outcome.k = "ok" /\ p.outcome.mtimeMs.k # "num"

LookupSucceeded(p) == p.outcome.k = "ok" /\ p.outcome.mtimeMs.k = "num"

\* C13: a last-modified lookup that fails never fails the batch; a result
\* whose lookup failed is returned as it was, with its original score;
\* every other result gets the score that follows from its own embedded
\* date or its own lookup, whatever happened to the failed one.
C13_FailedLookupKeepsScore ==
  DecayEnabled =>
    /\ pc # "rejected"
    /\ pc = "done" =>
         \A i \in DOMAIN results :
           /\ LookupFailed(PromiseOf(i)) =>
                /\ decayed[i].same
                /\ decayed[i].score = Scaled(results[i].score, Zero)
           /\ LookupSucceeded(PromiseOf(i)) =>
                decayed[i].score = ScoreFrom(i, NewDate(PromiseOf(i).outcome.mtimeMs))
           /\ parseMemoryDateFromPath(results[i].path) # NullDate =>
                decayed[i].score = ScoreFrom(i, parseMemoryDateFromPath(results[i].path))

\* A batch of two lookups: fs.stat threw for the first and succeeded for
\* the second, which is decayed.
C13_Witness ==
  /\ DecayReturned
  /\ Len(results) = 2
  /\ Len(statCalls) = 2
  /\ PromiseOf(1).outcome.k = "throws"
  /\ LookupSucceeded(PromiseOf(2))
  /\ decayed[1].same
  /\ ~decayed[2].same /\ decayed[2].score.x # Zero

\* C14: an enabled batch returns only after every lookup it started has
\* settled; the returned list has the length of the input and its i-th
\* element is made from the i-th input (same identity and source, the
\* score the input's score times a multiplier), in whatever order the
\* lookups settled.
C14_ReturnsAfterAllSettledInOrder ==
  DecayReturned =>
    /\ \A key \in DOMAIN timestampPromiseCache : timestampPromiseCache[key].settled
    /\ Len(statSettled) = Len(statCalls)
    /\ Len(decayed) = Len(results)
    /\ \A i \in DOMAIN results :
         /\ decayed[i].path = results[i].path
         /\ decayed[i].source = results[i].source
         /\ decayed[i].score =
              IF PromiseOf(i).value = NullDate
                THEN Scaled(results[i].score, Zero)
                ELSE ScoreFrom(i, PromiseOf(i).value)
         /\ decayed[i].same => decayed[i].score = Scaled(results[i].score, Zero)

\* Two lookups, the second result's settled first; both results decayed.
C14_Witness ==
  /\ DecayReturned
  /\ Len(results) = 2
  /\ Len(statSettled) = 2
  /\ statSettled[1] = CacheKey(results[2])
  /\ statSettled[2] = CacheKey(results[1])
  /\ ~decayed[1].same /\ ~decayed[2].same

\* The evergreen results of the pool: under the source "memory", the
\* root-level MEMORY.md and a file of memory/ that has no date in its name.
IsEvergreenResult(e) ==
  e.source = Src_memory /\ e.path \in {Path_MEMORY_md, Path_memory_topic}

\* C15: an evergreen result (source "memory"; MEMORY.md at the root or
\* a non-dated file of memory/) keeps its score through the enabled decay
\* stage for every current time, every half-life and every file age, and
\* fs.stat is never called for it.
C15_EvergreenNeverDecayed ==
  DecayEnabled =>
    \A i \in DOMAIN results : IsEvergreenResult(results[i]) =>
      /\ \A c \in DOMAIN statCalls : statCalls[c].key # CacheKey(results[i])
      /\ pc = "done" =>
           /\ decayed[i].same
           /\ decayed[i].score = Scaled(results[i].score, Zero)

\* With a workspace directory and a valid half-life, MEMORY.md is
\* returned as it was next to a dated file that is decayed.
C15_Witness ==
  /\ DecayReturned
  /\ workspaceDir # <<>>
  /\ Len(results) = 2
  /\ results[1].path = Path_MEMORY_md /\ IsEvergreenResult(results[1])
  /\ decayed[1].same
  /\ ~decayed[2].same /\ decayed[2].score.x # Zero
  /\ statCalls = <<>>

\* The calendar date in the name of a dated file of the pool, as its day
\* number: 2024-03-01 and 2020-01-01.
RefEmbeddedDay(path) ==
  CASE path = Path_memory_2024_03_01 -> 19783
    [] path = Path_memory_2020_01_01 -> 18262

HasRefEmbeddedDay(path) == path \in {Path_memory_2024_03_01, Path_memory_2020_01_01}

\* The days from UTC midnight of the embedded date to the current time.
RefAgeInDays(path) ==
  NumAdd(Rat(nowMs.d - RefEmbeddedDay(path), 1), Rat(nowMs.ms, DAY_MS))

ValidHalfLife(h) == IsNum(h) /\ h.n > 0

\* The double nearest to score * 2^(-k): score * 2^(-k) itself, and where
\* that is below 2^30 of the smallest double 2^(-1074) the nearest whole
\* number of them (0 below half of the smallest double).
RefRounded(score, k) ==
  IF DecayProductIsTiny(score, Rat(k, 1))
    THEN ScaledOfDouble(DoubleMul(DoubleOfRat(score), DoubleTwoTo(-k)))
    ELSE Scaled(score, Rat(k, 1))

\* score * 2^(-k) as the code has it: Math.exp gives 2^(-k) up to
\* k = 1074 and the double 0 from k = 1076 on; at k = 1075 it gives the
\* one or the other, 2^(-1074) being the double next to 2^(-1075).
RefHalved(score, k) ==
  IF k >= 1076 THEN {Scaled(Zero, Zero)}
  ELSE IF k = 1075 THEN {Scaled(Zero, Zero), RefRounded(score, 1074)}
  ELSE {RefRounded(score, k)}

\* The rational c * 2^(-x) for a whole x of at most 30.
AsRational(v) == NumDiv(v.c, Rat(Pow2(v.x.n), 1))

\* C16: with decay enabled and a half-life of H days, a result whose
\* identity embeds a valid date exactly k * H days before the current
\* time (k = 0, 1, 2, ...) gets the score original * 2^(-k); with H = 30,
\* a date 30 days before now and score 1 the score is 1/2.
C16_WholeHalfLivesHalveScore ==
  DecayReturned /\ nowMs.k = "num" /\ ValidHalfLife(MergedDecayConfig(config).halfLifeDays) =>
    \A i \in DOMAIN results : HasRefEmbeddedDay(results[i].path) =>
      LET q == NumDiv(RefAgeInDays(results[i].path),
                      MergedDecayConfig(config).halfLifeDays)
      IN q.d = 1 /\ q.n >= 0 => decayed[i].score \in RefHalved(results[i].score, q.n)

\* Half-life 1, now 2022-12-10, memory/2020-01-01.md with score 1/2: the
\* multiplier is the smallest double 2^(-1074), and the product, half of
\* it, is the double 0.
HalfOfSmallestDoubleIsZero ==
  /\ DecayReturned
  /\ nowArg = Ms(19336, 0)
  /\ MergedDecayConfig(config).halfLifeDays = One
  /\ Len(results) >= 1
  /\ results[1].path = Path_memory_2020_01_01
  /\ results[1].score = Rat(1, 2)
  /\ calculateTemporalDecayMultiplier(RefAgeInDays(results[1].path), One)
       = Scaled(One, Rat(1074, 1))
  /\ ~decayed[1].same
  /\ decayed[1].score = Scaled(Zero, Zero)

\* Half-life 30, now 2024-03-31, memory/2024-03-01.md with score 1: 1/2.
C16_Witness ==
  /\ DecayReturned
  /\ nowArg = Ms(19813, 0)
  /\ MergedDecayConfig(config).halfLifeDays = Rat(30, 1)
  /\ Len(results) >= 1
  /\ results[1].path = Path_memory_2024_03_01
  /\ results[1].score = One
  /\ decayed[1].score.x = One
  /\ AsRational(decayed[1].score) = Rat(1, 2)

MultiplierReturned == entry = "calculateTemporalDecayMultiplier" /\ pc = "done"

\* The value c * 2^(-x) is greater than 0; is at most 1.
ScaledPositive(v) == IsNum(v.c) /\ v.c.n > 0

ScaledAtMostOne(v) ==
  /\ IsNum(v.c) /\ v.c.n >= 0 /\ v.x.n >= 0
  /\ NumGeq(One, v.c) \/ NumGeqInt(v.x, 31)

\* The age in half-lives, for a finite age and a valid half-life.
HalfLivesOld(age, h) == NumDiv(MathMax(Zero, age), h)

\* The time value a is later than b.
MsLater(a, b) ==
  /\ a.k = "num" /\ b.k = "num"
  /\ a.d > b.d \/ (a.d = b.d /\ a.ms > b.ms)

\* The timestamp a result was aged from is later than the current time:
\* the result's score is the one it had, whatever its sign, and so it is
\* not greater than that.
FutureTimestampKeepsScore ==
  DecayReturned =>
    \A i \in DOMAIN results :
      MsLater(PromiseOf(i).value, nowMs) =>
        /\ decayed[i].score = Scaled(results[i].score, Zero)
        /\ NumGeq(results[i].score, AsRational(decayed[i].score))

\* C17 as stated: for every age and every half-life the decay multiplier
\* is greater than 0 and at most 1; a resolved timestamp later than the
\* current time has its age clamped to 0, so the result's score is
\* unchanged and not increased.
C17_MultiplierPositiveAtMostOne ==
  /\ MultiplierReturned => ScaledPositive(multiplier) /\ ScaledAtMostOne(multiplier)
  /\ FutureTimestampKeepsScore

\* The age is a finite one of at least n half-lives, the half-life valid.
AtLeastHalfLives(n) ==
  /\ IsNum(ageInDays) /\ ValidHalfLife(halfLifeDays)
  /\ NumGeqInt(HalfLivesOld(ageInDays, halfLifeDays), n)

\* C17 as the code has it: the multiplier is at least 0 and at most 1; it
\* is greater than 0 while the age is below 1074 half-lives and for an age
\* or a half-life the function does not decay for, and exactly 0 from 1076
\* half-lives on, where Math.exp has underflowed; in between it is 0 or
\* the smallest double 2^(-1074), as at 1075 half-lives with the
\* half-life 30 days, where it is 2^(-1074), and with the half-life 1
\* day, where it is 0; a timestamp later than the current time leaves the
\* result's score unchanged, and so not increased.
C17_MultiplierInUnitRange ==
  /\ MultiplierReturned =>
       /\ ScaledAtMostOne(multiplier)
       /\ AtLeastHalfLives(1076) => multiplier = Scaled(Zero, Zero)
       /\ ~AtLeastHalfLives(1074) => ScaledPositive(multiplier)
       /\ AtLeastHalfLives(1074) /\ ~AtLeastHalfLives(1076) =>
            multiplier \in {Scaled(Zero, Zero), Scaled(One, Rat(1074, 1))}
       /\ ageInDays = Rat(32250, 1) /\ halfLifeDays = Rat(30, 1) =>
            multiplier = Scaled(One, Rat(1074, 1))
       /\ ageInDays = Rat(1075, 1) /\ halfLifeDays = One =>
            multiplier = Scaled(Zero, Zero)
  /\ FutureTimestampKeepsScore

\* An age of 1551 days with a half-life of 1 day: the multiplier is 0.
C17_Witness ==
  /\ MultiplierReturned
  /\ ageInDays = Rat(1551, 1)
  /\ halfLifeDays = One
  /\ multiplier = Scaled(Zero, Zero)

\* A dated file of 2024-03-01 with the current time 2022-12-10: returned
\* with its score.
FutureTimestampReached ==
  /\ DecayReturned
  /\ ValidHalfLife(MergedDecayConfig(config).halfLifeDays)
  /\ Len(results) >= 1
  /\ MsLater(PromiseOf(1).value, nowMs)
  /\ ~decayed[1].same
  /\ decayed[1].score = Scaled(results[1].score, Zero)

\* notes/a.md with the score -4/5, last modified on 2024-03-01, and the
\* current time 2022-12-10: returned with the score -4/5.
FutureTimestampKeepsNegativeScore ==
  /\ DecayReturned
  /\ ValidHalfLife(MergedDecayConfig(config).halfLifeDays)
  /\ Len(results) >= 1
  /\ results[1].path = Path_notes_a
  /\ results[1].score = Rat(-4, 5)
  /\ LookupSucceeded(PromiseOf(1))
  /\ MsLater(PromiseOf(1).value, nowMs)
  /\ ~decayed[1].same
  /\ decayed[1].score = Scaled(Rat(-4, 5), Zero)

\* The same file 30 days old with a half-life of 30 days: the score is
\* -4/5 * 1/2 = -2/5, which is greater than -4/5.  A score below 0 is
\* brought towards 0 by the decay as one above 0 is.
NegativeScoreDecaysTowardsZero ==
  /\ DecayReturned
  /\ nowArg = Ms(19813, 0)
  /\ MergedDecayConfig(config).halfLifeDays = Rat(30, 1)
  /\ Len(results) >= 1
  /\ results[1].path = Path_notes_a
  /\ results[1].score = Rat(-4, 5)
  /\ decayed[1].score = Scaled(Rat(-4, 5), One)
  /\ NumGt(AsRational(decayed[1].score), results[1].score)

\* a < b on the numbers with -Infinity and Infinity; NaN is not ordered.
ExtLess(a, b) ==
  CASE a.k = "-Infinity" -> b.k \in {"num", "Infinity"}
    [] a.k = "num" -> b.k = "Infinity" \/ (b.k = "num" /\ NumGt(b, a))
    [] OTHER -> FALSE

\* a <= b for multipliers.  Each is 0, 2^(-x), or a whole number c of
\* the smallest double (c odd, below 2^31, x whole): next to a 2^(-x)
\* with an x that is not whole, of 2^30 of the smallest double or more,
\* the whole number of them is the smaller one.
ScaledLeq(a, b) ==
  IF a.c = Zero THEN TRUE
  ELSE IF b.c = Zero THEN FALSE
  ELSE IF a.c = b.c THEN NumGeq(a.x, b.x)
  ELSE IF a.x.d # 1 \/ b.x.d # 1 THEN a.c # One
  ELSE LET d == a.x.n - b.x.n IN
       IF d >= 31 THEN TRUE
       ELSE IF d <= -31 THEN FALSE
       ELSE IF d >= 0
         THEN a.c.n \div Pow2(d) < b.c.n
                \/ (a.c.n \div Pow2(d) = b.c.n /\ a.c.n % Pow2(d) = 0)
         ELSE a.c.n <= b.c.n \div Pow2(-d)

PositiveHalfLife(h) == ValidHalfLife(h) \/ h.k = "Infinity"

\* C18 as stated: for a fixed valid half-life the multiplier never
\* increases when the age increases, over all ages the function accepts
\* (Infinity and -Infinity included); for a fixed age it never decreases
\* when the half-life increases.
C18_MonotoneOverAllInputs ==
  MultiplierReturned =>
    /\ ValidHalfLife(halfLifeDays) =>
         \A a \in AgePool : ExtLess(ageInDays, a) =>
           ScaledLeq(calculateTemporalDecayMultiplier(a, halfLifeDays), multiplier)
    /\ \A h \in HalfLifePool : ExtLess(halfLifeDays, h) =>
         ScaledLeq(multiplier, calculateTemporalDecayMultiplier(ageInDays, h))

\* C18 as the code has it: for a fixed valid half-life the multiplier
\* never increases when the age increases over the finite ages (an age
\* that is not finite gives 1); for a fixed age it never decreases when
\* the half-life increases over the positive half-lives (a half-life of
\* 0 or less gives 1).
C18_MonotoneOverFiniteAgesPositiveHalfLives ==
  MultiplierReturned =>
    /\ ValidHalfLife(halfLifeDays) /\ IsNum(ageInDays) =>
         \A a \in AgePool : IsNum(a) /\ ExtLess(ageInDays, a) =>
           ScaledLeq(calculateTemporalDecayMultiplier(a, halfLifeDays), multiplier)
    /\ PositiveHalfLife(halfLifeDays) =>
         \A h \in HalfLifePool : PositiveHalfLife(h) /\ ExtLess(halfLifeDays, h) =>
           ScaledLeq(multiplier, calculateTemporalDecayMultiplier(ageInDays, h))

\* Age 30 and half-life 30 give 1/2: less at age 60, more at half-life
\* 60, and 1 again at the age Infinity and at the half-life 0.
C18_Witness ==
  /\ MultiplierReturned
  /\ ageInDays = Rat(30, 1)
  /\ halfLifeDays = Rat(30, 1)
  /\ multiplier = Scaled(One, One)
  /\ calculateTemporalDecayMultiplier(Rat(60, 1), halfLifeDays) = Scaled(One, Rat(2, 1))
  /\ calculateTemporalDecayMultiplier(ageInDays, Rat(60, 1)) = Scaled(One, Rat(1, 2))
  /\ calculateTemporalDecayMultiplier(PosInfinity, halfLifeDays) = Scaled(One, Zero)
  /\ calculateTemporalDecayMultiplier(ageInDays, Zero) = Scaled(One, Zero)

\* A half-life that is not finite, 0 or negative; an age that is not
\* finite (undefined stands for a value that is no number).
InvalidHalfLife(h) == ~IsNum(h) \/ h.n <= 0

NonFiniteAge(a) == ~IsNum(a)

\* C19: a half-life that is not finite, 0 or negative, or an age that is
\* not finite, gives the multiplier exactly 1; the enabled stage with
\* such a half-life (or with a current time that is NaN) returns every
\* score unchanged and does not fail.
C19_InvalidInputsGiveOne ==
  /\ MultiplierReturned /\ (InvalidHalfLife(halfLifeDays) \/ NonFiniteAge(ageInDays)) =>
       multiplier = Scaled(One, Zero)
  /\ DecayEnabled /\ (InvalidHalfLife(MergedDecayConfig(config).halfLifeDays)
                      \/ (pc # "applyTemporalDecayToHybridResults" /\ nowMs.k # "num")) =>
       /\ pc # "rejected"
       /\ pc = "done" =>
            \A i \in DOMAIN results : decayed[i].score = Scaled(results[i].score, Zero)

\* Half-life 0: a file dated 30 days before now passes through the
\* stage (a new object) with its score.
C19_Witness ==
  /\ DecayReturned
  /\ MergedDecayConfig(config).halfLifeDays = Zero
  /\ nowArg = Ms(19813, 0)
  /\ Len(results) >= 1
  /\ results[1].path = Path_memory_2024_03_01
  /\ ~decayed[1].same
  /\ decayed[1].score = Scaled(results[1].score, Zero)

\* fs.stat gives an mtimeMs beyond the range of Date: the Date is an
\* invalid one, the age NaN and the multiplier 1; the result passes
\* through the stage (a new object) with its score.
OutOfRangeMtimeKeepsScore ==
  /\ DecayReturned
  /\ ValidHalfLife(MergedDecayConfig(config).halfLifeDays)
  /\ nowMs.k = "num"
  /\ Len(results) >= 1
  /\ LookupSucceeded(PromiseOf(1))
  /\ PromiseOf(1).value = InvalidDate
  /\ ~decayed[1].same
  /\ decayed[1].score = Scaled(results[1].score, Zero)

\* The multiplier for the ages and half-lives that are no valid numbers.
InvalidMultiplierCallsReached ==
  /\ MultiplierReturned
  /\ halfLifeDays = NaN
  /\ ageInDays = PosInfinity
  /\ multiplier = Scaled(One, Zero)

\* The identities of the pool that have the dated form with the day
\* 2024-02-30, which is no calendar date (it would roll over to
\* 2024-03-01, day 19783).
HasInvalidDate(path) == path \in {Path_memory_2024_02_30, Path_abs_memory_2024_02_30}

\* Result i was aged from the time of its last-modified lookup, or was
\* left as it was when the lookup failed.
ResolvedByLookup(i) ==
  /\ \E c \in DOMAIN statCalls : statCalls[c].key = CacheKey(results[i])
  /\ PromiseOf(i).settled =>
       /\ PromiseOf(i).outcome \in StatOutcomes
       /\ PromiseOf(i).value = TimestampOfStat(PromiseOf(i).outcome)
  /\ pc = "done" =>
       IF LookupSucceeded(PromiseOf(i))
         THEN decayed[i].score = ScoreFrom(i, NewDate(PromiseOf(i).outcome.mtimeMs))
         ELSE decayed[i].same

\* C20: an identity of the dated form whose year-month-day is no calendar
\* date (memory/2024-02-30.md) is never given a rolled-over date: it has
\* no embedded date, it is not treated as evergreen although its source
\* is "memory", and its timestamp is resolved by the last-modified
\* lookup.
C20_InvalidDateResolvedByLookup ==
  DecayEnabled =>
    \A i \in DOMAIN results : HasInvalidDate(results[i].path) /\ i <= mapIndex =>
      /\ parseMemoryDateFromPath(results[i].path) = NullDate
      /\ ResolvedByLookup(i)

\* What holds of the code: no rolled-over date in any case, and the
\* lookup whenever a workspace directory is given.
InvalidDateResolvedByLookupGivenWorkspaceDir ==
  DecayEnabled =>
    \A i \in DOMAIN results : HasInvalidDate(results[i].path) /\ i <= mapIndex =>
      /\ parseMemoryDateFromPath(results[i].path) = NullDate
      /\ PromiseOf(i).value # Ms(19783, 0) \/ LookupSucceeded(PromiseOf(i))
      /\ workspaceDir # <<>> => ResolvedByLookup(i)
      /\ workspaceDir = <<>> =>
           /\ statCalls = <<>>
           /\ pc = "done" => decayed[i].same

\* memory/2024-02-30.md under the source "memory", aged from the mtime
\* its lookup returned.
InvalidDateLookupReached ==
  /\ DecayReturned
  /\ Len(results) >= 1
  /\ results[1].path = Path_memory_2024_02_30
  /\ results[1].source = Src_memory
  /\ LookupSucceeded(PromiseOf(1))
  /\ ~decayed[1].same /\ decayed[1].score.x # Zero

\* C21: the timestamp of a result is resolved in a fixed order.  A result
\* whose path holds a valid date is aged from UTC midnight of that date,
\* under either source and whatever fs.stat would answer, and fs.stat is
\* not called for it; fs.stat is called only for results that hold no
\* date and are not evergreen.
C21_ResolutionPriority ==
  DecayEnabled =>
    /\ \A i \in DOMAIN results :
         HasRefEmbeddedDay(results[i].path) /\ i <= mapIndex =>
           /\ \A c \in DOMAIN statCalls : statCalls[c].key # CacheKey(results[i])
           /\ PromiseOf(i).settled
           /\ PromiseOf(i).value = Ms(RefEmbeddedDay(results[i].path), 0)
           /\ pc = "done" =>
                decayed[i].score =
                  ScoreFrom(i, Ms(RefEmbeddedDay(results[i].path), 0))
    /\ \A c \in DOMAIN statCalls :
         \E i \in DOMAIN results :
           /\ statCalls[c].key = CacheKey(results[i])
           /\ ~HasRefEmbeddedDay(results[i].path)
           /\ ~IsEvergreenResult(results[i])

\* A dated file under the source "sessions" aged from its date next to
\* notes/a.md aged from the mtime of its lookup, while the lookup would
\* have answered for either.
C21_Witness ==
  /\ DecayReturned
  /\ workspaceDir # <<>>
  /\ Len(results) = 2
  /\ results[1].path = Path_memory_2020_01_01 /\ results[1].source = Src_sessions
  /\ results[2].path = Path_notes_a
  /\ Len(statCalls) = 1 /\ statCalls[1].key = CacheKey(results[2])
  /\ LookupSucceeded(PromiseOf(2))
  /\ ~decayed[1].same /\ ~decayed[2].same
  /\ decayed[1].score # decayed[2].score

(***************************************************************************)
(* parseMemoryDateFromPath on its own.                                     *)
(***************************************************************************)
ParseReturned == entry = "parseMemoryDateFromPath" /\ pc = "done"

\* The paths of the pool whose last two components are memory/YYYY-MM-DD
\* and an extension, with YYYY-MM-DD a date of the calendar.
HasDatedForm(path) ==
  path \in {Path_memory_2024_03_01, Path_memory_2020_01_01,
            Path_deep_memory_2024_03_01, Path_dot_memory_2024_03_01,
            Path_memory_2024_03_01_txt, Path_deep_memory_2024_03_01_json,
            Path_memory_2024_02_29, Path_memory_0099_12_31,
            Path_memory_1969_12_31}

\* The day number (days since 1970-01-01) of the date in such a path.
RefDayOfDatedForm(path) ==
  CASE path = Path_memory_2020_01_01 -> 18262
    [] path = Path_memory_2024_02_29 -> 19782
    [] path = Path_memory_0099_12_31 -> 0 - 683004
    [] path = Path_memory_1969_12_31 -> 0 - 1
    [] OTHER -> 19783

\* C22: every path whose trailing components have the form
\* memory/YYYY-MM-DD.<ext>, for any extension and at any depth, with a
\* date of the calendar, has that date (UTC midnight) parsed as its
\* timestamp.
C22_DatedFormParsed ==
  ParseReturned /\ HasDatedForm(parsePath) =>
    parsedDate = Ms(RefDayOfDatedForm(parsePath), 0)

\* What holds of the code: the date is parsed when the extension is .md
\* and the year is 100 or later; another extension and a year below 100
\* give null; a path that has not the form, or whose date is no calendar
\* date, gives null.
DatedMdFormParsed ==
  ParseReturned =>
    IF /\ HasDatedForm(parsePath)
       /\ parsePath \notin {Path_memory_2024_03_01_txt,
                            Path_deep_memory_2024_03_01_json,
                            Path_memory_0099_12_31}
      THEN parsedDate = Ms(RefDayOfDatedForm(parsePath), 0)
      ELSE IF parsePath = Path_backslash_memory_2024_03_01
        THEN parsedDate = Ms(19783, 0)
        ELSE parsedDate = NullDate

\* memory/2024-03-01.txt was parsed, and null was returned.
DatedTxtGivesNull ==
  /\ ParseReturned
  /\ parsePath = Path_memory_2024_03_01_txt
  /\ parsedDate = NullDate

\* A dated .md file below other directories was parsed to its date.
DeepDatedMdParsed ==
  /\ ParseReturned
  /\ parsePath = Path_deep_memory_2024_03_01
  /\ parsedDate = Ms(19783, 0)

\* Result i holds no date and is not evergreen.
NeedsLookup(i) ==
  /\ ~HasRefEmbeddedDay(results[i].path)
  /\ ~IsEvergreenResult(results[i])

\* fs.stat was called for result i, with the path given.
LookedUpAt(i, statPath) ==
  \E c \in DOMAIN statCalls :
    /\ statCalls[c].key = CacheKey(results[i])
    /\ statCalls[c].path = statPath

\* C23: for every result that holds no date and is not evergreen the
\* enabled stage calls fs.stat for its path; the workspace directory is
\* needed only for a path that is not absolute, so an absolute path is
\* looked up as it is also when no workspace directory is passed.
C23_LookupForEveryUndatedResult ==
  DecayEnabled =>
    \A i \in DOMAIN results : NeedsLookup(i) /\ i <= mapIndex =>
      /\ \E c \in DOMAIN statCalls : statCalls[c].key = CacheKey(results[i])
      /\ PathIsAbsolute(results[i].path) => LookedUpAt(i, results[i].path)

\* What holds of the code: with a workspace directory every such result
\* is looked up, an absolute path as it is and a relative path below the
\* workspace directory; without one fs.stat is never called and every
\* such result is returned as it was.
LookupOnlyWithWorkspaceDir ==
  DecayEnabled =>
    /\ workspaceDir = <<>> => statCalls = <<>>
    /\ \A i \in DOMAIN results : NeedsLookup(i) /\ i <= mapIndex =>
         IF workspaceDir = <<>>
           THEN pc = "done" => decayed[i].same
           ELSE LookedUpAt(i, IF PathIsAbsolute(results[i].path)
                                THEN results[i].path
                                ELSE workspaceDir \o <<"/">> \o results[i].path)

\* An absolute path without a date was returned as it was, and fs.stat
\* was not called, because no workspace directory was passed.
AbsoluteIdentityNotLookedUp ==
  /\ DecayReturned
  /\ workspaceDir = <<>>
  /\ Len(results) = 1
  /\ results[1].path = Path_abs_memory_2024_02_30
  /\ ValidHalfLife(MergedDecayConfig(config).halfLifeDays)
  /\ statCalls = <<>>
  /\ decayed[1].same

\* The same path with a workspace directory: looked up as it is, and
\* aged from the mtime of the lookup.
AbsoluteIdentityLookedUp ==
  /\ DecayReturned
  /\ workspaceDir = Dir_ws
  /\ Len(results) = 1
  /\ results[1].path = Path_abs_memory_2024_02_30
  /\ LookedUpAt(1, Path_abs_memory_2024_02_30)
  /\ LookupSucceeded(PromiseOf(1))
  /\ ~decayed[1].same

\* A batch whose config does not enable the stage: temporalDecay is
\* absent or has no enabled field (the default), or has enabled: false.
DisabledByConfig ==
  /\ entry = "applyTemporalDecayToHybridResults"
  /\ config.enabled \in {"absent", "false"}

\* C24: the disabled stage, the default configuration included, returns
\* the results it was given in the same order with the same scores, and
\* starts no timestamp resolution and no fs.stat.
C24_DisabledReturnsInputNoLookup ==
  DisabledByConfig =>
    /\ extractCalls = <<>>
    /\ statCalls = <<>>
    /\ timestampPromiseCache = <<>>
    /\ pc \in {"applyTemporalDecayToHybridResults", "done"}
    /\ pc = "done" =>
         /\ Len(decayed) = Len(results)
         /\ \A i \in DOMAIN results :
              /\ decayed[i].same
              /\ decayed[i].path = results[i].path
              /\ decayed[i].source = results[i].source
              /\ decayed[i].score = Scaled(results[i].score, Zero)

\* The default configuration with a workspace directory and two results
\* whose timestamps the enabled stage would resolve, one from its date
\* and one by fs.stat: both are returned as they were.
C24_Witness ==
  /\ DisabledByConfig
  /\ config.enabled = "absent"
  /\ pc = "done"
  /\ workspaceDir # <<>>
  /\ Len(results) = 2
  /\ results[1].path = Path_notes_a
  /\ results[2].path = Path_memory_2024_03_01
  /\ results[1].score # results[2].score
  /\ decayed[1].same /\ decayed[2].same

\* C25: for every result the enabled stage has processed, every field
\* other than score (path, source and the fields the stage does not read)
\* has the same value in the output as in the input, at the same
\* position; only the score may differ.
C25_OnlyScoreReplaced ==
  DecayReturned =>
    /\ Len(decayed) = Len(results)
    /\ \A i \in DOMAIN results :
         /\ decayed[i].path = results[i].path
         /\ decayed[i].source = results[i].source
         /\ decayed[i].startLine = results[i].startLine
         /\ decayed[i].same => decayed[i].score = Scaled(results[i].score, Zero)

\* Two results with different other fields, both with a new score in a
\* new object.
C25_Witness ==
  /\ DecayReturned
  /\ Len(results) = 2
  /\ results[1].startLine # results[2].startLine
  /\ results[1].source # results[2].source
  /\ ~decayed[1].same /\ decayed[1].score # Scaled(results[1].score, Zero)
  /\ ~decayed[2].same /\ decayed[2].score # Scaled(results[2].score, Zero)
  /\ decayed[1].startLine = results[1].startLine
  /\ decayed[2].startLine = results[2].startLine

(***************************************************************************)
(* Claims about the command queue.                                         *)
(***************************************************************************)
CommandIds == 1..MaxCommands

Enqueued(e) == e <= Len(commands)

\* The task of command e was called and the promise it returned has not
\* settled.
Executing(e) == Enqueued(e) /\ taskState[e] = "executing"

TaskFinished(e) == Enqueued(e) /\ taskState[e] \in {"fulfilled", "rejected"}

PromiseSettled(e) == Enqueued(e) /\ promise[e].state # "pending"

\* C26: whatever the order of the calls of enqueueCommand and of the
\* settling of the tasks, calls made while a task runs included, at most
\* one task is executing at any time.
C26_AtMostOneTaskExecuting ==
  /\ Cardinality({e \in DOMAIN commands : Executing(e)}) <= 1
  /\ Cardinality(awaited) <= 1

\* Two calls of enqueueCommand were made while the first task runs: both
\* wait.
C26_Witness ==
  /\ Len(commands) = 3
  /\ Executing(1)
  /\ queue = <<2, 3>>
  /\ taskState[2] = "notStarted" /\ taskState[3] = "notStarted"

\* C27: tasks start in the order of their calls of enqueueCommand: a task
\* has not started unless every task enqueued before it has started and
\* finished; the entries that wait are in the order of their calls.
C27_FifoStart ==
  /\ \A i, j \in DOMAIN commands :
       i < j /\ taskState[j] # "notStarted" => TaskFinished(i)
  /\ \A k \in 1..(Len(queue) - 1) : queue[k] < queue[k + 1]

\* The first task has finished, the second runs, the third waits.
C27_Witness ==
  /\ Len(commands) = 3
  /\ TaskFinished(1) /\ PromiseSettled(1)
  /\ Executing(2)
  /\ queue = <<3>>

\* C28: the promise of a call of enqueueCommand is pending until its own
\* task has finished, and then is fulfilled with the value that task
\* returned or rejected with the error that task threw or rejected with:
\* never with the outcome of another task.
C28_PromiseSettlesWithOwnOutcome ==
  \A e \in DOMAIN commands :
    \/ promise[e] = PendingPromise
    \/ /\ TaskFinished(e)
       /\ commands[e].task = "returns" =>
            promise[e] = [state |-> "fulfilled",
                          value |-> [kind |-> "value", of |-> e]]
       /\ commands[e].task \in {"rejects", "throws"} =>
            promise[e] = [state |-> "rejected",
                          value |-> [kind |-> "error", of |-> e]]

\* Three settled promises: one rejected by a task that rejected, one
\* fulfilled, one rejected by a task that threw when called.
C28_Witness ==
  /\ Len(commands) = 3
  /\ commands[1].task = "rejects" /\ promise[1].state = "rejected"
  /\ promise[1].value.of = 1
  /\ commands[2].task = "returns" /\ promise[2].state = "fulfilled"
  /\ promise[2].value.of = 2
  /\ commands[3].task = "throws" /\ promise[3].state = "rejected"
  /\ promise[3].value.of = 3

\* C29: when every task settles in the end, every command passed to
\* enqueueCommand starts in the end and its promise settles in the end,
\* also after tasks that rejected or threw: the queue always drains.
C29_QueueAlwaysDrains ==
  \A e \in CommandIds :
    Enqueued(e) ~> (Enqueued(e) /\ taskState[e] # "notStarted" /\ PromiseSettled(e))

\* What holds of the code: every command starts and its promise settles,
\* also after tasks that rejected or threw, unless an onWait callback has
\* thrown; from then on nothing starts and nothing settles.
QueueDrainsUnlessOnWaitThrows ==
  \A e \in CommandIds :
    Enqueued(e) ~> (drainFailed \/ (Enqueued(e) /\ TaskFinished(e) /\ PromiseSettled(e)))

\* After an exception has left drainQueue no task is started and no
\* promise is settled any more.
NothingRunsAfterDrainFailed ==
  [][drainFailed /\ awaited = {} =>
       /\ taskState' = taskState \/ Len(taskState') > Len(taskState)
       /\ \A e \in DOMAIN commands : taskState'[e] = taskState[e]
       /\ \A e \in DOMAIN commands : promise'[e] = promise[e]
       /\ draining']_vars

\* The second command starts and settles after a first task that
\* rejected and next to a third that threw.
DrainedAfterRejections ==
  /\ Len(commands) = 3
  /\ commands[1].task = "rejects" /\ commands[3].task = "throws"
  /\ \A e \in 1..3 : PromiseSettled(e)
  /\ queue = <<>> /\ ~draining /\ ~drainFailed

\* The onWait of the second command threw: the command is off the queue,
\* its task was never called, its promise is pending, and the third
\* command waits behind a queue that is marked as draining.
StuckAfterOnWaitThrew ==
  /\ Len(commands) = 3
  /\ drainFailed /\ draining /\ awaited = {}
  /\ PromiseSettled(1)
  /\ taskState[2] = "notStarted" /\ ~PromiseSettled(2)
  /\ queue = <<3>>
  /\ onWaitCalls # <<>> /\ onWaitCalls[Len(onWaitCalls)].entry = 2

\* A command is running: its task was called and its promise has not
\* settled.
Running(e) == Enqueued(e) /\ taskState[e] # "notStarted" /\ ~PromiseSettled(e)

\* C30: getQueueSize() is always the number of commands that wait in the
\* queue plus one if a command is running, and it is 0 once the promise
\* of every command that was enqueued has settled.
C30_QueueSizeIsWaitingPlusRunning ==
  /\ getQueueSize =
       Len(queue) + (IF \E e \in DOMAIN commands : Running(e) THEN 1 ELSE 0)
  /\ (\A e \in DOMAIN commands : PromiseSettled(e)) => getQueueSize = 0

\* What holds of the code: the same until an onWait callback throws; from
\* then on getQueueSize() is one more than the number of commands that
\* wait, with no command running.
QueueSizeUnlessOnWaitThrows ==
  /\ (\A e \in DOMAIN commands : PromiseSettled(e)) => getQueueSize = 0
  /\ IF drainFailed
       THEN /\ getQueueSize = Len(queue) + 1
            /\ \A e \in DOMAIN commands : ~Running(e)
       ELSE getQueueSize =
              Len(queue) + (IF \E e \in DOMAIN commands : Running(e) THEN 1 ELSE 0)

\* One command runs and two wait: getQueueSize() is 3; and all have
\* settled: getQueueSize() is 0.
QueueSizeCountsRunning ==
  /\ Len(commands) = 3
  /\ Running(1) /\ queue = <<2, 3>>
  /\ getQueueSize = 3

QueueSizeZeroWhenSettled ==
  /\ Len(commands) = 3
  /\ \A e \in 1..3 : PromiseSettled(e)
  /\ getQueueSize = 0

(***************************************************************************)
(* onWait.                                                                 *)
(***************************************************************************)
\* The calls of onWait made for command e, as indices into s.
OnWaitCallsOf(s, e) == {k \in DOMAIN s : s[k].entry = e}

\* Command e leaves the queue in this step, after waiting its warnAfterMs
\* or longer, and has an onWait callback.
LeavesQueueAfterWaiting(e) ==
  /\ Enqueued(e)' /\ e \notin {queue'[k] : k \in DOMAIN queue'}
  /\ ~Enqueued(e) \/ e \in {queue[k] : k \in DOMAIN queue}
  /\ commands'[e].onWait # "absent"
  /\ clock - commands'[e].enqueuedAt >= commands'[e].warnAfterMs

\* The call k of onWait for command e in this step has as waitMs the
\* time from enqueuedAt to a read of Date.now() of the step: the reads lie
\* between the time the step starts at and the time it ends at.
WaitMsAsRead(k, e) ==
  /\ onWaitCalls'[k].waitMs >= clock - commands'[e].enqueuedAt
  /\ onWaitCalls'[k].waitMs <= clock' - commands'[e].enqueuedAt

\* The commands enqueued before e that have not finished: the commands
\* ahead of e.
CommandsAhead(e) ==
  Cardinality({i \in DOMAIN commands : i < e /\ ~TaskFinished(i)})

\* C31: when a command has waited at least warnAfterMs before starting,
\* its onWait callback is called exactly once, before its task starts,
\* with the time it waited and with queuedAhead the number of commands
\* that are still ahead of it at that moment.
C31_OnWaitOnceWithQueuedAhead ==
  [][\A e \in CommandIds : LeavesQueueAfterWaiting(e) =>
       /\ OnWaitCallsOf(onWaitCalls, e) = {}
       /\ Cardinality(OnWaitCallsOf(onWaitCalls', e)) = 1
       /\ \A k \in OnWaitCallsOf(onWaitCalls', e) :
            /\ WaitMsAsRead(k, e)
            /\ onWaitCalls'[k].queuedAhead = CommandsAhead(e)'
       /\ ~Enqueued(e) \/ taskState[e] = "notStarted"]_vars

\* What holds of the code: the same, with queuedAhead the number of
\* commands that wait behind the command (all that were enqueued after
\* it), while no command is ahead of it; and onWait is never called for a
\* command that waited less, and never twice.
OnWaitOnceWithQueuedBehind ==
  [][/\ \A e \in CommandIds : LeavesQueueAfterWaiting(e) =>
          /\ OnWaitCallsOf(onWaitCalls, e) = {}
          /\ Cardinality(OnWaitCallsOf(onWaitCalls', e)) = 1
          /\ \A k \in OnWaitCallsOf(onWaitCalls', e) :
               /\ WaitMsAsRead(k, e)
               /\ onWaitCalls'[k].queuedAhead = Len(commands') - e
               /\ CommandsAhead(e)' = 0
     /\ \A k \in DOMAIN onWaitCalls' :
          /\ onWaitCalls'[k].waitMs >= commands'[onWaitCalls'[k].entry].warnAfterMs
          /\ Cardinality(OnWaitCallsOf(onWaitCalls', onWaitCalls'[k].entry)) = 1]_vars

\* The second of three commands waited past its threshold behind the
\* first: onWait was called with 1, the third command that waits behind
\* it, while nothing is ahead of it.
OnWaitCountsCommandsBehind ==
  /\ Len(commands) = 3
  /\ TaskFinished(1)
  /\ Executing(2)
  /\ queue = <<3>>
  /\ Len(onWaitCalls) = 1
  /\ onWaitCalls[1].entry = 2
  /\ onWaitCalls[1].waitMs >= 5
  /\ onWaitCalls[1].queuedAhead = 1

\* The first command was shifted in the call of enqueueCommand that
\* pushed it, 5 ms after the read that gave enqueuedAt: onWait was called
\* with (5, 0) before its task.
OnWaitInEnqueueCommand ==
  /\ Len(commands) = 1
  /\ commands[1].enqueuedAt = 0 /\ commands[1].warnAfterMs = 5
  /\ onWaitCalls = <<[entry |-> 1, waitMs |-> 5, queuedAhead |-> 0]>>
  /\ clock = 5

\* As in the test of the repository: two commands, onWait called with 0.
OnWaitWithNothingBehind ==
  /\ Len(commands) = 2
  /\ Executing(2)
  /\ Len(onWaitCalls) = 1
  /\ onWaitCalls[1].entry = 2
  /\ onWaitCalls[1].queuedAhead = 0

\* The onWait callback of command e was called and threw.
OnWaitThrew(e) ==
  /\ Enqueued(e)
  /\ commands[e].onWait = "throws"
  /\ OnWaitCallsOf(onWaitCalls, e) # {}

\* C38: an onWait callback that throws does not stop the queue: the
\* command it belongs to and every command enqueued after it still run
\* and have their promises settled, and getQueueSize() is 0 again once
\* they have.
C38_ThrowingOnWaitDoesNotStopQueue ==
  \A e \in CommandIds :
    OnWaitThrew(e) ~>
      /\ \A i \in DOMAIN commands : i >= e => TaskFinished(i) /\ PromiseSettled(i)
      /\ getQueueSize = 0

\* What holds of the code: once an onWait callback has thrown, the
\* command it belongs to is off the queue with its task never called and
\* its promise pending, no drainQueue call is alive, `draining` is set,
\* and getQueueSize() is at least 1, for ever.
ThrowingOnWaitStopsQueue ==
  \A e \in DOMAIN commands : OnWaitThrew(e) =>
    /\ drainFailed /\ draining /\ awaited = {}
    /\ \A i \in DOMAIN commands : i >= e =>
         taskState[i] = "notStarted" /\ promise[i] = PendingPromise
    /\ \A k \in DOMAIN queue : queue[k] > e
    /\ getQueueSize = Len(commands) - e + 1

(***************************************************************************)
(* The shortcut for lambda = 1.                                            *)
(***************************************************************************)
\* The greedy loop of mmrRerank run on the items with lambda = 1.
GreedyLoopAtLambdaOne ==
  GreedyLoop(items, <<>>, SetOfItems(items), BuildTokenCache(items),
             MinOf(ItemScores(items), 1), MaxOf(ItemScores(items), 1), One)

\* An order of all the items by descending score, equal scores in the
\* order of the input.
IsDescendingStable(order) ==
  /\ IsPermutationOf(order, Len(items))
  /\ \A a, b \in DOMAIN order : a < b =>
       \/ NumGt(items[order[a]].score, items[order[b]].score)
       \/ /\ NumEq(items[order[a]].score, items[order[b]].score)
          /\ order[a] < order[b]

\* The loop and the shortcut agree on the items.
LoopAtLambdaOneAgrees ==
  /\ GreedyLoopAtLambdaOne = toSortedByScore(items)
  /\ IsDescendingStable(GreedyLoopAtLambdaOne)
  /\ pc = "mmrReturned" /\ IsEnabled /\ Len(items) > 1
       /\ NumEq(clampedLambda, One) =>
         reranked = GreedyLoopAtLambdaOne

\* C36 (as stated): the greedy loop run with lambda = 1 yields the order
\* the shortcut for lambda = 1 returns, descending original score with
\* equal scores in input order, on every input.
C36_LoopAtLambdaOneIsShortcut ==
  entry = "mmrRerank" /\ Len(items) >= 1 => LoopAtLambdaOneAgrees

\* What holds of the code: the loop and the shortcut agree on every array
\* that holds no object twice and whose scores are finite numbers.
LoopAtLambdaOneIsShortcutOfDistinctObjects ==
  entry = "mmrRerank" /\ Len(items) >= 1 /\ DistinctObjects /\ FiniteScores =>
    LoopAtLambdaOneAgrees

\* A score is NaN: the shortcut returns every item, the loop none.
ShortcutKeepsNaNScores ==
  /\ entry = "mmrRerank" /\ pc = "mmrReturned"
  /\ IsEnabled /\ NumEq(clampedLambda, One)
  /\ ~FiniteScores
  /\ Len(reranked) = Len(items)
  /\ GreedyLoopAtLambdaOne = <<>>

\* The shortcut was taken for three items, two of them with the same
\* score and different contents, and reordered them as the loop would.
ShortcutReorderedAsLoop ==
  /\ entry = "mmrRerank" /\ pc = "mmrReturned"
  /\ IsEnabled /\ NumEq(clampedLambda, One)
  /\ Len(items) = 3 /\ DistinctObjects
  /\ \E a, b \in DOMAIN items :
       a < b /\ NumEq(items[a].score, items[b].score)
             /\ items[a].content # items[b].content
  /\ reranked # <<1, 2, 3>>
  /\ reranked = GreedyLoopAtLambdaOne

\* The array holds the same object twice: the shortcut returns it twice,
\* the loop would return it once.
ShortcutKeepsSameObjectTwice ==
  /\ entry = "mmrRerank" /\ pc = "mmrReturned"
  /\ IsEnabled /\ NumEq(clampedLambda, One)
  /\ ~DistinctObjects
  /\ Len(reranked) = Len(items)
  /\ Len(GreedyLoopAtLambdaOne) < Len(items)

(***************************************************************************)
(* The cache key.                                                          *)
(***************************************************************************)
\* The (source, path) pairs of the results the map has called back for.
PairsMapped ==
  {<<results[i].source, results[i].path>> : i \in 1..mapIndex}

\* C37: within one batch two results share a cached timestamp outcome
\* only if they have the same source and the same path: different
\* (source, path) pairs, whatever characters they hold (':' included),
\* never have the same cache key, so there is one resolution per pair.
C37_DistinctPairsDistinctKeys ==
  DecayEnabled =>
    /\ \A i, j \in 1..mapIndex :
         CacheKey(results[i]) = CacheKey(results[j]) => SameKey(i, j)
    /\ Len(extractCalls) = Cardinality(PairsMapped)

\* What holds of the code: results share an outcome exactly when the
\* strings source + ":" + path are equal.
OneResolutionPerJoinedString ==
  DecayEnabled =>
    Len(extractCalls) =
      Cardinality({results[i].source \o <<":">> \o results[i].path :
                     i \in 1..mapIndex})

\* ("a:b", "memory/2024-02-29.md") and ("a", "b:memory/2024-02-29.md")
\* have the key "a:b:memory/2024-02-29.md".  The first holds a date; the
\* second holds none and would be looked up in the workspace directory,
\* but it is aged from the date of the first and fs.stat is not called.
ColonPairsShareDate ==
  /\ DecayReturned
  /\ workspaceDir # <<>>
  /\ Len(results) = 2
  /\ results[1].source = Src_a_colon_b /\ results[1].path = Path_memory_2024_02_29
  /\ results[2].source = Src_a /\ results[2].path = Path_b_colon_memory_2024_02_29
  /\ parseMemoryDateFromPath(results[2].path) = NullDate
  /\ Len(extractCalls) = 1 /\ statCalls = <<>>
  /\ ~decayed[2].same
  /\ decayed[2].score = ScoreFrom(2, Ms(19782, 0))
  /\ decayed[2].score.x # Zero

\* In the other order the dated result is aged from the mtime the lookup
\* of the other path returned, not from its date.
ColonPairsShareLookup ==
  /\ DecayReturned
  /\ workspaceDir # <<>>
  /\ Len(results) = 2
  /\ results[1].source = Src_a /\ results[1].path = Path_b_colon_memory_2024_02_29
  /\ results[2].source = Src_a_colon_b /\ results[2].path = Path_memory_2024_02_29
  /\ Len(statCalls) = 1
  /\ LookupSucceeded(PromiseOf(2))
  /\ decayed[2].score = ScoreFrom(2, PromiseOf(2).outcome.mtimeMs)
  /\ decayed[2].score # ScoreFrom(2, Ms(19782, 0))

(***************************************************************************)
(* Claims about getReplyFromConfig, under ReplySpec.                       *)
(***************************************************************************)
ReplyCallIds == DOMAIN replyCalls

\* The call's sender is not in the allowlist of its configuration, which
\* is not empty.
SenderBlocked(call) == ~Allowed(call.cfg, call.ctx)

\* The step ends call c's await of saveSessionStore: the file is written.
SavesSessionStore(c) ==
  /\ c \in ReplyCallIds
  /\ replyCalls[c].pc = "saveSessionStore"
  /\ replyCalls'[c].pc # "saveSessionStore"

\* C39: a call for a sender that is not in a non-empty allowFrom list
\* returns no reply, runs no command and leaves the session store
\* unchanged: no session entry is created or refreshed for that sender.
C39_BlockedSenderLeavesStoreUnchanged ==
  [][\A c \in DOMAIN replyCalls' :
       SenderBlocked(replyCalls'[c]) =>
         /\ replyCalls'[c].reply = <<>>
         /\ replyCalls'[c].command = 0
         /\ (SavesSessionStore(c) => sessionStore' = sessionStore)]_vars

\* What holds of the code: the blocked sender gets no reply, no command
\* and no start of the typing indicator.
BlockedSenderGetsNoReply ==
  \A c \in ReplyCallIds :
    SenderBlocked(replyCalls[c]) =>
      /\ replyCalls[c].reply = <<>>
      /\ replyCalls[c].command = 0
      /\ replyCalls[c].argv = <<>>
      /\ ~replyCalls[c].started

\* A blocked sender's call has returned and the store holds the session
\* it made for the sender.
BlockedSenderHasSession ==
  \E c \in ReplyCallIds :
    /\ SenderBlocked(replyCalls[c])
    /\ replyCalls[c].pc = "returned"
    /\ replyCalls[c].sessionKey[1] \in DOMAIN sessionStore
    /\ sessionStore[replyCalls[c].sessionKey[1]].sessionId
         = replyCalls[c].sessionId[1]

\* The step puts call c's command on the queue.
PutsCommandOnQueue(c) ==
  /\ c \in ReplyCallIds
  /\ replyCalls[c].command = 0
  /\ replyCalls'[c].command # 0

\* C32: onReplyStart is invoked at most once per call, and for a command
\* reply it has been invoked by the time the command is put on the queue:
\* it does not wait for the commands ahead.
C32_OnReplyStartOnceBeforeEnqueue ==
  [][\A c \in DOMAIN replyCalls' :
       /\ replyCalls'[c].onReplyStartCalls <= 1
       /\ (PutsCommandOnQueue(c) =>
             /\ replyCalls[c].started
             /\ (replyCalls[c].opts = "onReplyStart" =>
                   replyCalls[c].onReplyStartCalls = 1))]_vars

\* A call's command waits on the queue behind a running command, and the
\* call's onReplyStart has been invoked.
C32_Witness ==
  \E c \in ReplyCallIds :
    /\ replyCalls[c].opts = "onReplyStart"
    /\ replyCalls[c].onReplyStartCalls = 1
    /\ replyCalls[c].command # 0
    /\ taskState[replyCalls[c].command] = "notStarted"
    /\ \E e \in DOMAIN taskState : taskState[e] = "executing"

\* The call's configuration asks for a text reply.
TextReplyCall(call) ==
  /\ call.cfg.reply # <<>>
  /\ call.cfg.reply[1].mode = "text"
  /\ call.cfg.reply[1].text # <<>>

\* The step is one of call c: the call is made or goes on.
StepOfCall(c) == c \notin ReplyCallIds \/ replyCalls'[c] # replyCalls[c]

\* C33: a text-mode reply never passes through the command queue: no step
\* of the call changes the state of the queue or waits for it, and the
\* call of an allowed sender ends with the text as its reply.
C33_TextReplyBypassesQueue ==
  [][\A c \in DOMAIN replyCalls' :
       (TextReplyCall(replyCalls'[c]) /\ StepOfCall(c)) =>
         /\ UNCHANGED <<commands, queue, draining, awaited, taskState,
                        promise, onWaitCalls, drainFailed>>
         /\ replyCalls'[c].command = 0
         /\ replyCalls'[c].pc # "enqueueCommand"
         /\ (replyCalls'[c].pc = "returned" /\ ~SenderBlocked(replyCalls'[c])
               => replyCalls'[c].reply # <<>>)]_vars

\* A text reply was returned while the command of an earlier call was
\* running, and the command is running still.
C33_Witness ==
  \E c, d \in ReplyCallIds :
    /\ d < c
    /\ TextReplyCall(replyCalls[c])
    /\ replyCalls[c].pc = "returned"
    /\ replyCalls[c].reply # <<>>
    /\ replyCalls[d].command # 0
    /\ taskState[replyCalls[d].command] = "executing"
    /\ getQueueSize = 1

\* The call's configuration has a session.
SessionCall(call) ==
  call.cfg.reply # <<>> /\ call.cfg.reply[1].session # <<>>

SessionCfgOf(call) == call.cfg.reply[1].session[1]

\* The message as it was given is equal to a reset trigger, or starts
\* with a reset trigger followed by a space.
MessageIsResetTrigger(call) ==
  LET message == OrEmpty(call.ctx.Body)
      triggers == resetTriggers(SessionCfgOf(call))
  IN \E i \in 1..Len(triggers) :
       \/ message = triggers[i]
       \/ StartsWith(message, triggers[i] \o <<" ">>)

\* The message without the white space around it is equal to a reset
\* trigger that is not the empty string, or starts with such a trigger
\* followed by a space.
TrimmedMessageResets(call) ==
  LET message == Trim(OrEmpty(call.ctx.Body))
      triggers == resetTriggers(SessionCfgOf(call))
  IN \E i \in 1..Len(triggers) :
       /\ triggers[i] # <<>>
       /\ \/ message = triggers[i]
          \/ StartsWith(message, triggers[i] \o <<" ">>)

\* The session ids that are in the store or were used by a call.
KnownSessionIds ==
  {sessionStore[k].sessionId : k \in DOMAIN sessionStore}
    \cup {replyCalls[c].sessionId[1] :
            c \in {d \in ReplyCallIds : replyCalls[d].sessionId # <<>>}}

\* The store has an entry for the key that was updated within the idle
\* window before the time now.
StoredWithinIdleWindow(call, key, now) ==
  /\ key \in DOMAIN sessionStore
  /\ now - sessionStore[key].updatedAt
       <= idleMinutes(SessionCfgOf(call)) * 60000

\* The arguments arr are in argv, one after the other.
HasArguments(argv, arr) ==
  \E i \in 0..(Len(argv) - Len(arr)) : SubSeq(argv, i + 1, i + Len(arr)) = arr

\* The new-session or the resume arguments of the call's configuration,
\* for the call's session id.
SessionArgumentsOf(call, isNew) ==
  LET raw == sessionArgList(SessionCfgOf(call), isNew)
  IN [i \in 1..Len(raw) |->
        IF raw[i] = Str_SessionId_template THEN call.sessionId[1] ELSE raw[i]]

\* The step is the call c of getReplyFromConfig.
MakesCall(c) == c \notin ReplyCallIds /\ c \in DOMAIN replyCalls'

\* The step is the return of call c.
ReturnsFromCall(c) ==
  /\ c \in DOMAIN replyCalls'
  /\ replyCalls'[c].pc = "returned"
  /\ c \in ReplyCallIds => replyCalls[c].pc # "returned"

\* The call that is made reuses the id the store has for its key when
\* the message does not reset and the entry was updated within the idle
\* window, measured at a reading of the clock the call makes (between the
\* last reading before the call and the reading the call stores as
\* updatedAt); it takes an id that was never used when the message
\* resets or the entry is missing or stale.
SessionChosen(call, resets) ==
  \E now \in ReplyClockPool :
    /\ clock <= now /\ now <= clock'
    /\ IF ~resets /\ StoredWithinIdleWindow(call, call.sessionKey[1], now)
         THEN /\ ~call.isNewSession
              /\ call.sessionId = <<sessionStore[call.sessionKey[1]].sessionId>>
         ELSE /\ call.isNewSession
              /\ call.sessionId # <<>>
              /\ call.sessionId[1] \notin KnownSessionIds

\* The command of the call gets the new-session arguments for a new
\* session and the resume arguments for a reused one.
SessionArgumentsChosen(call) ==
  /\ HasArguments(call.argv, SessionArgumentsOf(call, call.isNewSession))
  /\ ~HasArguments(call.argv, SessionArgumentsOf(call, ~call.isNewSession))

\* C34 as stated: with a session configured, a message equal to a reset
\* trigger, or starting with a reset trigger followed by a space, starts
\* a new session id; any other message reuses the id stored for its key
\* when the entry was updated within the idle window and starts a new id
\* when the entry is missing or stale; a command gets the new-session or
\* the resume arguments accordingly; and after each call, when it
\* returns, the store maps the key to the session id that call used.
C34_SessionAsStated ==
  [][\A c \in DOMAIN replyCalls' :
       SessionCall(replyCalls'[c]) =>
         /\ MakesCall(c) =>
              SessionChosen(replyCalls'[c], MessageIsResetTrigger(replyCalls'[c]))
         /\ PutsCommandOnQueue(c) => SessionArgumentsChosen(replyCalls'[c])
         /\ ReturnsFromCall(c) =>
              /\ replyCalls'[c].sessionKey[1] \in DOMAIN sessionStore'
              /\ sessionStore'[replyCalls'[c].sessionKey[1]].sessionId
                   = replyCalls'[c].sessionId[1]]_vars

\* C34 as the code has it: with a session configured, a message that,
\* without the white space around it, is equal to a reset trigger other
\* than the empty string, or starts with such a trigger followed by a
\* space, starts a new session id; any other message reuses the id
\* stored for its key when the entry was updated within the idle window
\* and starts a new id when the entry is missing or stale; a command
\* gets the new-session or the resume arguments accordingly; and when
\* the call's write of the store is done, the store maps the key to the
\* id the call used.
C34_SessionNewOrResumed ==
  [][\A c \in DOMAIN replyCalls' :
       SessionCall(replyCalls'[c]) =>
         /\ MakesCall(c) =>
              SessionChosen(replyCalls'[c], TrimmedMessageResets(replyCalls'[c]))
         /\ PutsCommandOnQueue(c) => SessionArgumentsChosen(replyCalls'[c])
         /\ SavesSessionStore(c) =>
              /\ replyCalls'[c].sessionKey[1] \in DOMAIN sessionStore'
              /\ sessionStore'[replyCalls'[c].sessionKey[1]].sessionId
                   = replyCalls'[c].sessionId[1]]_vars

\* A message started a session with the new-session arguments, and the
\* sender's next message, not a reset trigger and within the idle window,
\* resumed it with the resume arguments; the store maps the key to the id.
C34_Witness ==
  \E c, d \in ReplyCallIds :
    /\ c < d
    /\ SessionCall(replyCalls[c]) /\ SessionCall(replyCalls[d])
    /\ replyCalls[c].isNewSession
    /\ TrimmedMessageResets(replyCalls[c])
    /\ ~replyCalls[d].isNewSession
    /\ ~TrimmedMessageResets(replyCalls[d])
    /\ replyCalls[d].sessionId = replyCalls[c].sessionId
    /\ HasArguments(replyCalls[c].argv, <<Str_sid, replyCalls[c].sessionId[1]>>)
    /\ HasArguments(replyCalls[d].argv,
                    <<Str_resume, replyCalls[c].sessionId[1]>>)
    /\ sessionStore[replyCalls[d].sessionKey[1]].sessionId
         = replyCalls[d].sessionId[1]

\* A message that is no reset trigger came after the idle window and
\* started a new session id.
StaleSessionReplaced ==
  \E c, d \in ReplyCallIds :
    /\ c < d
    /\ SessionCall(replyCalls[d])
    /\ replyCalls[c].sessionKey = replyCalls[d].sessionKey
    /\ ~TrimmedMessageResets(replyCalls[d])
    /\ replyCalls[d].isNewSession
    /\ replyCalls[d].sessionId # replyCalls[c].sessionId
    /\ replyCalls[d].pc = "returned"
    /\ replyCalls[c].pc = "returned"

\* A message that is a reset trigger with white space around it, and so
\* is not equal to the trigger, started a new session id within the idle
\* window of the sender's session.
ResetWithinIdleWindow ==
  \E c, d \in ReplyCallIds :
    /\ c < d
    /\ SessionCall(replyCalls[d])
    /\ replyCalls[c].sessionKey = replyCalls[d].sessionKey
    /\ replyCalls[c].pc = "returned"
    /\ replyCalls[d].ctx.Body = <<Str_sp_new_nl>>
    /\ ~MessageIsResetTrigger(replyCalls[d])
    /\ StoredWithinIdleWindow(replyCalls[d], replyCalls[d].sessionKey[1], 0)
    /\ replyCalls[d].isNewSession
    /\ replyCalls[d].sessionId # replyCalls[c].sessionId

\* The empty string is one of the reset triggers, and the sender's next
\* message, the empty string, resumed the session within the idle
\* window: an empty trigger is passed over.
EmptyMessageResumes ==
  \E c, d \in ReplyCallIds :
    /\ c < d
    /\ SessionCall(replyCalls[c]) /\ SessionCall(replyCalls[d])
    /\ replyCalls[d].ctx.Body = <<Str_empty>>
    /\ MessageIsResetTrigger(replyCalls[d])
    /\ ~replyCalls[d].isNewSession
    /\ replyCalls[d].sessionId = replyCalls[c].sessionId
    /\ HasArguments(replyCalls[d].argv,
                    <<Str_resume, replyCalls[c].sessionId[1]>>)

\* A call has returned and the store maps its key to another session id:
\* while its command ran, a later call of the sender reset the session
\* and wrote the store.
ReturnedAfterSessionReplaced ==
  \E c, d \in ReplyCallIds :
    /\ c < d
    /\ SessionCall(replyCalls[c]) /\ SessionCall(replyCalls[d])
    /\ replyCalls[c].sessionKey = replyCalls[d].sessionKey
    /\ replyCalls[c].pc = "returned"
    /\ replyCalls[c].command # 0
    /\ sessionStore[replyCalls[c].sessionKey[1]].sessionId
         = replyCalls[d].sessionId[1]
    /\ replyCalls[d].sessionId # replyCalls[c].sessionId

\* The only call was made at time 0 and stored that time; a minute had
\* passed when its await was over, and its command was put on the queue
\* with the time read then.
CommandEnqueuedAfterAwait ==
  /\ Len(replyCalls) = 1
  /\ SessionCall(replyCalls[1])
  /\ replyCalls[1].command # 0
  /\ sessionStore[replyCalls[1].sessionKey[1]].updatedAt = 0
  /\ commands[replyCalls[1].command].enqueuedAt = 60000

\* A call's command waited a minute on the queue behind the command of
\* another call, and the onWait the call passes was called with the wait.
ReplyCommandWaited ==
  \E c \in ReplyCallIds, i \in DOMAIN onWaitCalls :
    /\ replyCalls[c].command = onWaitCalls[i].entry
    /\ replyCalls[c].command > 1
    /\ onWaitCalls[i].waitMs = 60000

\* How many elements of argv are an --output-format flag, a print flag.
OutputFormatFlags(argv) ==
  Cardinality({i \in 1..Len(argv) :
                 \/ argv[i] = Str_output_format
                 \/ StartsWith(argv[i], Str_output_format_eq)})

PrintFlags(argv) ==
  Cardinality({i \in 1..Len(argv) : argv[i] \in {Str_dash_p, Str_print}})

\* The call built the argv of a command of at least 2 parts, and the
\* session arguments, if any, go before the body.
BuiltArgvOfTwoParts(call) ==
  /\ call.command # 0
  /\ Len(call.cfg.reply[1].command) >= 2
  /\ (SessionCall(call) => SessionCfgOf(call).sessionArgBeforeBody # "false")

\* The parts of the configured command with the call's context filled in.
CommandPartsOf(call) ==
  templatedCommand(call.cfg.reply[1], templatingCtx(call.cfg.reply, call))

\* C35: for a command of at least 2 parts, after the template prefix, the
\* Claude flags and the session arguments are injected, the final argv
\* has the command as its first element and the prompt body as its last,
\* and a flag that the command has already is not added again.
C35_ArgvKeepsCommandFirstBodyLast ==
  \A c \in ReplyCallIds :
    BuiltArgvOfTwoParts(replyCalls[c]) =>
      LET call == replyCalls[c]
          parts == CommandPartsOf(call)
      IN /\ Len(call.argv) >= Len(parts)
         /\ call.argv[1] = parts[1]
         /\ call.argv[Len(call.argv)] = parts[Len(parts)]
         /\ IF OutputFormatFlags(parts) > 0
              THEN OutputFormatFlags(call.argv) = OutputFormatFlags(parts)
              ELSE OutputFormatFlags(call.argv) <= 1
         /\ IF PrintFlags(parts) > 0
              THEN PrintFlags(call.argv) = PrintFlags(parts)
              ELSE PrintFlags(call.argv) <= 1

\* A Claude command got the template prefix, both flags and the session
\* arguments between the command and the body, and another, which had
\* both flags, got none.
C35_Witness ==
  \E c, d \in ReplyCallIds :
    /\ BuiltArgvOfTwoParts(replyCalls[c])
    /\ SessionCall(replyCalls[c])
    /\ replyCalls[c].argv
         = <<Str_claude, Str_tmpl, Str_output_format, Str_text, Str_dash_p,
             Str_sid, replyCalls[c].sessionId[1], Str_hi>>
    /\ BuiltArgvOfTwoParts(replyCalls[d])
    /\ replyCalls[d].argv
         = <<Str_bin_claude, Str_print, Str_output_format_json,
             Str_pfx \o Str_hi>>

=============================================================================
